---- MODULE Spec2Model ----
(***************************************************************************)
(* Model of the ShEx schema compiler of rudof:                             *)
(*   - CompiledSchema (shex_ast/src/compiled/compiled_schema.rs): the      *)
(*     label -> index map, the index -> (label, shape expression) table,   *)
(*     the index counter and the prefix map;                               *)
(*   - SchemaJsonCompiler (shex_ast/src/schema_json_compiler.rs): the two  *)
(*     pass compilation of a schema AST into a CompiledSchema.             *)
(* Results of fallible functions are records tagged "Ok", "Err" or         *)
(* "Panic" (a Rust panic raised by todo!()).                               *)
(***************************************************************************)
EXTENDS Integers, Sequences, FiniteSets, TLC

VARIABLES
    shape_labels_map,     \* CompiledSchema.shape_labels_map : ShapeLabel -> ShapeLabelIdx
    shapes,               \* CompiledSchema.shapes : ShapeLabelIdx -> (ShapeLabel, ShapeExpr)
    shape_label_counter,  \* CompiledSchema.shape_label_counter
    prefixmap,            \* CompiledSchema.prefixmap : prefix -> IRI
    shape_decls_counter,  \* SchemaJsonCompiler.shape_decls_counter
    schema_json,          \* the schema passed to the running / last from_schema_json
    pc,                   \* position of the running call
    pos,                  \* position of the `for sd in sds` loop (1-based)
    call,                 \* the last call of find_ref or of a conversion, with its arguments
    result,               \* value returned by the last call
    run                   \* the validations that use the schema: their calls, the match under way

vars == <<shape_labels_map, shapes, shape_label_counter, prefixmap,
          shape_decls_counter, schema_json, pc, pos, call, result, run>>

schema_vars == <<shape_labels_map, shapes, shape_label_counter, prefixmap>>

-----------------------------------------------------------------------------
(* Bounds of the model                                                     *)

\* longest list of shape declarations of a schema
MaxDecls == 2
\* largest number of indices a CompiledSchema allocates
MaxIdx == 2
\* declarations of a schema in the error-propagation specification
FatalDecls == 3
\* cardinalities range over -CardRange .. CardRange
CardRange == 3
\* longest input of a parser of the grammar
MaxInput == 5
\* integer literals range over -MaxNum .. MaxNum
MaxNum == 12

-----------------------------------------------------------------------------
(* Option, Result                                                          *)

None == <<>>
Some(x) == <<x>>

\* HashMap::new()
EmptyMap == [k \in {} |-> 0]

Ok(v) == [tag |-> "Ok", val |-> v]
Err(e) == [tag |-> "Err", err |-> e]
\* todo!() : the thread panics, nothing is returned
Panic(m) == [tag |-> "Panic", msg |-> m]
\* Ok(()) of from_schema_json / compile
OkUnit == [tag |-> "Ok"]
\* no call has returned yet
NoResult == [tag |-> "None"]
NoCall == [fn |-> "none"]
\* no validation uses the schema
NoRun == [at |-> "none"]

-----------------------------------------------------------------------------
(* CompiledSchemaError values                                              *)

ShapeLabelNotFound(l) == [err |-> "ShapeLabelNotFound", shape_label |-> l]
LabelNotFound(l) == [err |-> "LabelNotFound", shape_label |-> l]
PrefixedNotFound(p, l, e) ==
    [err |-> "PrefixedNotFound", prefix |-> p, local |-> l, cause |-> e]
MinLessZero(m) == [err |-> "MinLessZero", min |-> m]
MaxIncorrect(m) == [err |-> "MaxIncorrect", max |-> m]
Todo(m) == [err |-> "Todo", msg |-> m]

\* fn todo<A>(str) -> CResult<A>
todo(str) == Err(Todo(str))

-----------------------------------------------------------------------------
(* ShapeLabel, ShapeLabelIdx                                               *)

Iri(i) == <<"Iri", i>>
BNode(b) == <<"BNode", b>>
Start == <<"Start", "">>

\* IriS::new: the IRI of a string; the schema parser hands over IRI strings only
IriS_new(str) == Ok(str)

\* ShapeLabel::from_iri_str: the label of an IRI string
from_iri_str(id) ==
    LET iri == IriS_new(id) IN
    IF iri.tag # "Ok" THEN iri ELSE Ok(Iri(iri.val))

\* ShapeLabelIdx::default()
ShapeLabelIdxDefault == 0
\* ShapeLabelIdx::incr
incr(idx) == idx + 1

-----------------------------------------------------------------------------
(* PrefixMap, IriRef, ShapeExprLabel                                       *)

\* PrefixMap::new(): no prefix declared
PrefixMap_new == EmptyMap
PrefixNotFound(p) == [err |-> "PrefixNotFound", prefix |-> p]
\* PrefixMap::resolve_prefix_local: the IRI of the prefix followed by local
resolve_prefix_local(pm, prefix, local) ==
    IF prefix \in DOMAIN pm THEN Ok(pm[prefix] \o local) ELSE Err(PrefixNotFound(prefix))

\* ShapeExprLabel::IriRef { value: IriRef::Iri(iri) }
LIri(iri) == [label |-> "Iri", iri |-> iri]
\* ShapeExprLabel::IriRef { value: IriRef::Prefixed { prefix, local } }
LPrefixed(prefix, local) == [label |-> "Prefixed", prefix |-> prefix, local |-> local]
\* ShapeExprLabel::BNode { value }
LBNode(value) == [label |-> "BNode", value |-> value]
\* ShapeExprLabel::Start
LStart == [label |-> "Start"]

-----------------------------------------------------------------------------
(* compiled ShapeExpr, Rbe, MatchCond                                      *)

Empty == [type |-> "Empty"]
Ref(idx) == [type |-> "Ref", idx |-> idx]
ShapeOr(es) == [type |-> "ShapeOr", exprs |-> es]
ShapeAnd(es) == [type |-> "ShapeAnd", exprs |-> es]
ShapeNot(e) == [type |-> "ShapeNot", expr |-> e]
Shape(c, x, t) ==
    [type |-> "Shape", closed |-> c, extra |-> x, rbe_table |-> t,
     sem_acts |-> <<>>, annotations |-> <<>>]
NodeConstraint(nk, dt, xf, vs, cond) ==
    [type |-> "NodeConstraint", node_kind |-> nk, datatype |-> dt,
     xs_facet |-> xf, values |-> vs, cond |-> cond]

\* Max::Unbounded, Max::from(n)
Unbounded == <<"Unbounded">>
IntMax(n) == <<"IntMax", n>>
Cardinality_from(min, max) == [min |-> min, max |-> max]

\* RbeTable: the components (predicate, condition) in the order they were
\* added, and the pattern set by with_rbe
RbeTable_new == [components |-> <<>>, rbe |-> None]
with_rbe(table, rbe) == [table EXCEPT !.rbe = Some(rbe)]
\* RbeTable::add_component: the new component is the next dense id
add_component(table, iri, cond) ==
    [table |-> [table EXCEPT !.components = Append(@, <<iri, cond>>)],
     c |-> Len(table.components)]

Rbe_symbol(c, min, max) ==
    [type |-> "Symbol", value |-> c, card |-> Cardinality_from(min, max)]
Rbe_and(cs) == [type |-> "And", values |-> cs]
Rbe_or(cs) == [type |-> "Or", values |-> cs]
Rbe_Star(v) == [type |-> "Star", value |-> v]
Rbe_Plus(v) == [type |-> "Plus", value |-> v]
Rbe_Repeat(v, card) == [type |-> "Repeat", value |-> v, card |-> card]

is_1_1(card) == card.min = 1 /\ card.max = IntMax(1)
is_star(card) == card.min = 0 /\ card.max = Unbounded
is_plus(card) == card.min = 1 /\ card.max = Unbounded

MatchCond_empty == [type |-> "Empty"]
MatchCond_And(cs) == [type |-> "And", conds |-> cs]
MatchCond_single(name, check) == [type |-> "Single", name |-> name, check |-> check]

-----------------------------------------------------------------------------
(* the schema AST (schema_json)                                            *)

\* schema_json::Ref::IriRef { value }, schema_json::Ref::BNode { value }
SRefIri(v) == [type |-> "Ref", ref |-> "IriRef", value |-> v]
SRefBNode(v) == [type |-> "Ref", ref |-> "BNode", value |-> v]
SShapeOr(ses) == [type |-> "ShapeOr", shape_exprs |-> ses]
SShapeAnd(ses) == [type |-> "ShapeAnd", shape_exprs |-> ses]
SShapeNot(se) == [type |-> "ShapeNot", shape_expr |-> se]
SShape(closed, extra, expression) ==
    [type |-> "Shape", closed |-> closed, extra |-> extra, expression |-> expression]
SNodeConstraint(nk, dt, xf, vs) ==
    [type |-> "NodeConstraint", node_kind |-> nk, datatype |-> dt,
     xs_facet |-> xf, values |-> vs]
SShapeExternal == [type |-> "ShapeExternal"]

SEachOf(es, min, max) == [type |-> "EachOf", expressions |-> es, min |-> min, max |-> max]
SOneOf(es, min, max) == [type |-> "OneOf", expressions |-> es, min |-> min, max |-> max]
STripleConstraint(p, ve, min, max) ==
    [type |-> "TripleConstraint", predicate |-> p, value_expr |-> ve,
     min |-> min, max |-> max]
STripleExprRef(r) == [type |-> "TripleExprRef", label |-> r]

\* schema_json::ValueSetValue, by variant
SValue(variant, v) == [vs |-> variant, value |-> v]

ShapeDecl(id, se) == [id |-> id, shape_expr |-> se]
\* Schema { shapes: Option<Vec<ShapeDecl>> }
Schema(sds) == [shapes |-> sds]
DeclsOf(schema) == IF schema.shapes = None THEN <<>> ELSE schema.shapes[1]

-----------------------------------------------------------------------------
(* CompiledSchema: the functions that only read                            *)

\* a get_shape_label_idx that answers the default index for a label it does not hold
CS_get_shape_label_idx_or_default(map, shape_label) ==
    Ok(IF shape_label \in DOMAIN map THEN map[shape_label] ELSE 0)

\* CompiledSchema::get_shape_label_idx
CS_get_shape_label_idx(map, shape_label) ==
    IF shape_label \in DOMAIN map
    THEN Ok(map[shape_label])
    ELSE Err(ShapeLabelNotFound(shape_label))

\* a find_ref that falls back on the local name when the prefix is not declared
find_ref_local_name(map, pm, se_ref) ==
    LET shape_label ==
            CASE se_ref.label = "Iri" -> Iri(se_ref.iri)
              [] se_ref.label = "Prefixed" ->
                    LET iri == resolve_prefix_local(pm, se_ref.prefix, se_ref.local) IN
                    IF iri.tag # "Ok" THEN Iri(se_ref.local) ELSE Iri(iri.val)
              [] se_ref.label = "BNode" -> BNode(se_ref.value)
              [] se_ref.label = "Start" -> Start
    IN  IF shape_label \in DOMAIN map
        THEN Ok(map[shape_label])
        ELSE Err(LabelNotFound(shape_label))

\* CompiledSchema::find_ref
find_ref(map, pm, se_ref) ==
    LET shape_label ==
            CASE se_ref.label = "Iri" -> Ok(Iri(se_ref.iri))
              [] se_ref.label = "Prefixed" ->
                    LET iri == resolve_prefix_local(pm, se_ref.prefix, se_ref.local) IN
                    IF iri.tag # "Ok"
                    THEN Err(PrefixedNotFound(se_ref.prefix, se_ref.local, iri.err))
                    ELSE Ok(Iri(iri.val))
              [] se_ref.label = "BNode" -> Ok(BNode(se_ref.value))
              [] se_ref.label = "Start" -> Ok(Start)
    IN  IF shape_label.tag # "Ok" THEN shape_label
        ELSE IF shape_label.val \in DOMAIN map
             THEN Ok(map[shape_label.val])
             ELSE Err(LabelNotFound(shape_label.val))

\* CompiledSchema::find_shape_label_idx
find_shape_label_idx(map, label) ==
    IF label \in DOMAIN map THEN Some(map[label]) ELSE None

\* CompiledSchema::find_label
find_label(map, tbl, label) ==
    LET o == find_shape_label_idx(map, label) IN
    IF o = None THEN None
    ELSE IF o[1] \in DOMAIN tbl THEN Some(<<o[1], tbl[o[1]][2]>>) ELSE None

\* CompiledSchema::find_shape_idx
find_shape_idx(tbl, idx) == IF idx \in DOMAIN tbl THEN Some(tbl[idx]) ELSE None

\* CompiledSchema::get_shape_expr
get_shape_expr(map, tbl, shape_label) ==
    LET o == find_shape_label_idx(map, shape_label) IN
    IF o = None THEN None
    ELSE IF o[1] \in DOMAIN tbl THEN Some(tbl[o[1]][2]) ELSE None

\* CompiledSchema::existing_labels
existing_labels(map) == DOMAIN map

\* CompiledSchema::shapes: the values of the table, in no order
CS_shapes(tbl) ==
    [e \in {tbl[i] : i \in DOMAIN tbl} |-> Cardinality({i \in DOMAIN tbl : tbl[i] = e})]

\* local names an IRI is split into
Locals == {"a", "b", "c"}
\* PrefixMap::qualify: alias:local for a declared prefix the IRI starts
\* with, the IRI between angle brackets otherwise
qualify(pm, iri) ==
    LET fits == {al \in (DOMAIN pm) \X Locals : pm[al[1]] \o al[2] = iri} IN
    IF fits = {} THEN "<" \o iri \o ">"
    ELSE LET al == CHOOSE al \in fits : TRUE IN al[1] \o ":" \o al[2]

\* CompiledSchema::show_label
show_label(pm, label) ==
    CASE label[1] = "Iri" -> qualify(pm, label[2])
      [] label[1] = "BNode" -> label[2]
      [] label[1] = "Start" -> "START"

\* the read functions of CompiledSchema: the value call c returns
read(c, map, tbl, pm) ==
    CASE c.fn = "find_ref" -> find_ref(map, pm, c.arg)
      [] c.fn = "find_label" -> find_label(map, tbl, c.arg)
      [] c.fn = "find_shape_label_idx" -> find_shape_label_idx(map, c.arg)
      [] c.fn = "find_shape_idx" -> find_shape_idx(tbl, c.arg)
      [] c.fn = "get_shape_expr" -> get_shape_expr(map, tbl, c.arg)
      [] c.fn = "get_shape_label_idx" -> CS_get_shape_label_idx(map, c.arg)
      [] c.fn = "existing_labels" -> existing_labels(map)
      [] c.fn = "shapes" -> CS_shapes(tbl)
      [] c.fn = "show_label" -> show_label(pm, c.arg)

-----------------------------------------------------------------------------
(* SchemaJsonCompiler: conversions                                         *)

\* SchemaJsonCompiler::id_to_shape_label
id_to_shape_label(id) == from_iri_str(id)

\* SchemaJsonCompiler::get_shape_label_idx
get_shape_label_idx(id, map) ==
    LET label == id_to_shape_label(id) IN
    IF label.tag # "Ok" THEN label ELSE CS_get_shape_label_idx(map, label.val)

\* a ref2idx that answers the index after the registered one
ref2idx_next(sref, map) ==
    IF sref.ref = "IriRef"
    THEN LET i == get_shape_label_idx(sref.value, map) IN
         IF i.tag # "Ok" THEN i ELSE Ok(incr(i.val))
    ELSE todo("ref2idx: BNode")

\* SchemaJsonCompiler::ref2idx
ref2idx(sref, map) ==
    IF sref.ref = "IriRef"
    THEN get_shape_label_idx(sref.value, map)
    ELSE todo("ref2idx: BNode")

\* cnv_iri_ref
cnv_iri_ref(iri) == IriS_new(iri)
\* SchemaJsonCompiler::cnv_predicate
cnv_predicate(predicate) == IriS_new(predicate)

\* SchemaJsonCompiler::cnv_closed
cnv_closed(closed) == IF closed = None THEN FALSE ELSE closed[1]

\* SchemaJsonCompiler::cnv_extra: every IRI of extra converted, in order
RECURSIVE cnv_extra_loop(_, _, _)
cnv_extra_loop(extra, i, vs) ==
    IF i > Len(extra) THEN Ok(vs)
    ELSE LET nm == cnv_iri_ref(extra[i]) IN
         IF nm.tag # "Ok" THEN nm ELSE cnv_extra_loop(extra, i + 1, Append(vs, nm.val))
\* a cnv_extra that drops the declared predicates
cnv_extra_dropped(extra) == Ok(<<>>)
cnv_extra(extra) ==
    IF extra = None THEN Ok(<<>>) ELSE cnv_extra_loop(extra[1], 1, <<>>)

\* a cnv_min that drops the declared minimum
cnv_min_zero(min) ==
    IF min # None /\ min[1] < 0 THEN Err(MinLessZero(min[1])) ELSE Ok(0)

\* SchemaJsonCompiler::cnv_min
cnv_min(min) ==
    IF min # None /\ min[1] < 0 THEN Err(MinLessZero(min[1]))
    ELSE IF min # None THEN Ok(min[1])
    ELSE Ok(1)

\* a cnv_max that rejects every negative max
cnv_max_no_unbounded(max) ==
    IF max # None /\ max[1] < 0 THEN Err(MaxIncorrect(max[1]))
    ELSE IF max # None THEN Ok(IntMax(max[1]))
    ELSE Ok(IntMax(1))

\* SchemaJsonCompiler::cnv_max
cnv_max(max) ==
    IF max = Some(-1) THEN Ok(Unbounded)
    ELSE IF max # None /\ max[1] < -1 THEN Err(MaxIncorrect(max[1]))
    ELSE IF max # None THEN Ok(IntMax(max[1]))
    ELSE Ok(IntMax(1))

\* SchemaJsonCompiler::cnv_min_max
cnv_min_max(min, max) ==
    LET mn == cnv_min(min) IN
    IF mn.tag # "Ok" THEN mn
    ELSE LET mx == cnv_max(max) IN
         IF mx.tag # "Ok" THEN mx
         ELSE Ok(Cardinality_from(mn.val, mx.val))

\* a mk_card_group that wraps every cardinality but (1,1) in Repeat
mk_card_group_repeat(rbe, card) ==
    IF is_1_1(card) THEN rbe ELSE Rbe_Repeat(rbe, card)

\* a mk_card_group that takes (0, unbounded) for (1, unbounded)
mk_card_group_plus(rbe, card) ==
    IF is_1_1(card) THEN rbe
    ELSE IF is_star(card) \/ is_plus(card) THEN Rbe_Plus(rbe)
    ELSE Rbe_Repeat(rbe, card)

\* SchemaJsonCompiler::mk_card_group
mk_card_group(rbe, card) ==
    IF is_1_1(card) THEN rbe
    ELSE IF is_star(card) THEN Rbe_Star(rbe)
    ELSE IF is_plus(card) THEN Rbe_Plus(rbe)
    ELSE Rbe_Repeat(rbe, card)

-----------------------------------------------------------------------------
(* conversion helpers over Option and Vec                                  *)

\* cnv_opt, applied to the Option of func's results: rs is func mapped over
\* the Option (a sequence of no or one element)
cnv_opt(rs) ==
    IF Len(rs) = 0 THEN Ok(None)
    ELSE IF rs[1].tag # "Ok" THEN rs[1] ELSE Ok(Some(rs[1].val))

\* the loop of cnv_opt_vec and create_value_set, applied to func's results rs
\* on the elements in order: returns at the first one that is not Ok
cnv_each(rs) ==
    LET bad == {i \in 1..Len(rs) : rs[i].tag # "Ok"} IN
    IF bad # {}
    THEN rs[CHOOSE i \in bad : \A j \in bad : i <= j]
    ELSE Ok([i \in 1..Len(rs) |-> rs[i].val])

\* cnv_opt_vec, applied to the Option of the Vec of func's results
cnv_opt_vec(maybe_rs) ==
    IF Len(maybe_rs) = 0 THEN Ok(None)
    ELSE LET r == cnv_each(maybe_rs[1]) IN
         IF r.tag # "Ok" THEN r ELSE Ok(Some(r.val))

\* cnv_node_kind, cnv_xs_facet, cnv_string_or_wildcard: todo!()
cnv_node_kind(nk) == Panic("not yet implemented")
cnv_xs_facet(xsf) == Panic("not yet implemented")
cnv_string_or_wildcard(sw) == Panic("not yet implemented")

\* cnv_lang
cnv_lang(lang) == Ok(lang)

\* cnv_object_value
cnv_object_value(ov) ==
    IF ov.ov = "IriRef"
    THEN LET iri == cnv_iri_ref(ov.value) IN
         IF iri.tag # "Ok" THEN iri ELSE Ok([ov |-> "IriRef", value |-> iri.val])
    ELSE LET language == cnv_opt([i \in 1..Len(ov.language) |-> cnv_lang(ov.language[i])]) IN
         IF language.tag # "Ok" THEN language
         ELSE Ok([ov |-> "ObjectLiteral", value |-> ov.value, language |-> language.val])

\* cnv_value
cnv_value(v) ==
    CASE v.vs = "IriStem" ->
            LET cnv_stem == cnv_iri_ref(v.value) IN
            IF cnv_stem.tag # "Ok" THEN cnv_stem
            ELSE Ok([vs |-> "IriStem", value |-> cnv_stem.val])
      [] v.vs = "ObjectValue" ->
            LET ov == cnv_object_value(v.value) IN
            IF ov.tag # "Ok" THEN ov ELSE Ok([vs |-> "ObjectValue", value |-> ov.val])
      [] v.vs = "Language" -> Ok([vs |-> "Language", value |-> v.value])
      [] v.vs = "LiteralStem" -> Ok([vs |-> "LiteralStem", value |-> v.value])
      [] v.vs = "LiteralStemRange" -> cnv_string_or_wildcard(v.value)
      [] OTHER -> Panic("not yet implemented")

\* create_value_set
create_value_set(values) == cnv_each([i \in 1..Len(values) |-> cnv_value(values[i])])

-----------------------------------------------------------------------------
(* match conditions                                                        *)

\* mk_cond_ref
mk_cond_ref(idx) == MatchCond_single(<<"@", idx>>, [cond |-> "ref", idx |-> idx])
\* mk_cond_datatype
mk_cond_datatype(datatype) ==
    MatchCond_single(<<"datatype", datatype>>, [cond |-> "datatype", datatype |-> datatype])
\* mk_cond_nodekind
mk_cond_nodekind(nodekind) ==
    MatchCond_single(<<"nodekind", nodekind>>, [cond |-> "nodekind", nodekind |-> nodekind])
\* mk_cond_value_set
mk_cond_value_set(value_set) ==
    MatchCond_single(<<"values", value_set>>, [cond |-> "values", value_set |-> value_set])
\* MatchCond::single(SingleCond::new().with_name("."))
cond_any == MatchCond_single(<<".">>, [cond |-> "any"])

\* SchemaJsonCompiler::node_kind2match_cond
node_kind2match_cond(nodekind) == mk_cond_nodekind(nodekind)
\* SchemaJsonCompiler::datatype2match_cond
datatype2match_cond(datatype) ==
    LET iri == cnv_iri_ref(datatype) IN
    IF iri.tag # "Ok" THEN iri ELSE Ok(mk_cond_datatype(iri.val))
\* SchemaJsonCompiler::xs_facet2match_cond: todo!()
xs_facet2match_cond(xs_facet) == Panic("not yet implemented")
\* SchemaJsonCompiler::valueset2match_cond
valueset2match_cond(vs) == mk_cond_value_set(vs)

\* SchemaJsonCompiler::options2match_cond: os is a sequence of Options
RECURSIVE flatten_options(_)
flatten_options(os) ==
    IF os = <<>> THEN <<>> ELSE os[1] \o flatten_options(Tail(os))
options2match_cond(os) ==
    LET vec == flatten_options(os) IN
    IF Len(vec) = 0 THEN MatchCond_empty
    ELSE IF Len(vec) = 1 THEN vec[1]
    ELSE MatchCond_And(vec)

\* SchemaJsonCompiler::node_constraint2match_cond
node_constraint2match_cond(node_kind, datatype, xs_facet, values) ==
    LET c1 == IF node_kind = None THEN None ELSE Some(node_kind2match_cond(node_kind[1]))
        c2 == cnv_opt([i \in 1..Len(datatype) |-> datatype2match_cond(datatype[i])])
    IN  IF c2.tag # "Ok" THEN c2
        ELSE IF xs_facet # None THEN xs_facet2match_cond(xs_facet[1])
        ELSE LET c4 == IF values = None THEN None
                       ELSE Some(valueset2match_cond(values[1]))
             IN Ok(options2match_cond(<<c1, c2.val, None, c4>>))

\* SchemaJsonCompiler::cnv_node_constraint
cnv_node_constraint(nk, dt, xs_facet, values) ==
    LET maybe_value_set ==
            cnv_opt([i \in 1..Len(values) |-> create_value_set(values[i])]) IN
    IF maybe_value_set.tag # "Ok" THEN maybe_value_set
    ELSE node_constraint2match_cond(nk, dt, xs_facet, maybe_value_set.val)

\* SchemaJsonCompiler::value_expr2match_cond
value_expr2match_cond(ve, map) ==
    IF ve = None THEN Ok(cond_any)
    ELSE LET se == ve[1] IN
         CASE se.type = "NodeConstraint" ->
                cnv_node_constraint(se.node_kind, se.datatype, se.xs_facet, se.values)
           [] se.type = "Ref" ->
                LET idx == ref2idx(se, map) IN
                IF idx.tag # "Ok" THEN idx ELSE Ok(mk_cond_ref(idx.val))
           [] se.type = "Shape" -> todo("valueexpr2match_cond: Shape")
           [] se.type = "ShapeAnd" -> todo("value_expr2match_cond: ShapeOr")
           [] se.type = "ShapeOr" -> todo("value_expr2match_cond: ShapeOr")
           [] se.type = "ShapeNot" -> todo("value_expr2match_cond: ShapeNot")
           [] se.type = "ShapeExternal" -> todo("value_expr2match_cond: ShapeExternal")

-----------------------------------------------------------------------------
(* triple expressions and shape expressions                                *)

\* SchemaJsonCompiler::triple_expr2rbe: Ok carries the pattern and the table
\* with the components added so far
RECURSIVE triple_expr2rbe(_, _, _)
RECURSIVE triple_exprs2rbe(_, _, _, _, _)
\* a loop over the expressions of a group that passes over a TripleExprRef
triple_exprs2rbe_skipping(expressions, i, cs, map, current_table) ==
    IF i > Len(expressions) THEN Ok([cs |-> cs, table |-> current_table])
    ELSE IF expressions[i].type = "TripleExprRef"
    THEN triple_exprs2rbe(expressions, i + 1, cs, map, current_table)
    ELSE LET c == triple_expr2rbe(expressions[i], map, current_table) IN
         IF c.tag # "Ok" THEN c
         ELSE triple_exprs2rbe(expressions, i + 1, Append(cs, c.val.rbe), map, c.val.table)
\* the loop of triple_expr2rbe over the expressions of EachOf and OneOf
triple_exprs2rbe(expressions, i, cs, map, current_table) ==
    IF i > Len(expressions) THEN Ok([cs |-> cs, table |-> current_table])
    ELSE LET c == triple_expr2rbe(expressions[i], map, current_table) IN
         IF c.tag # "Ok" THEN c
         ELSE triple_exprs2rbe(expressions, i + 1, Append(cs, c.val.rbe), map, c.val.table)
triple_expr2rbe(triple_expr, map, current_table) ==
    CASE triple_expr.type \in {"EachOf", "OneOf"} ->
            LET cs == triple_exprs2rbe(triple_expr.expressions, 1, <<>>, map, current_table) IN
            IF cs.tag # "Ok" THEN cs
            ELSE LET card == cnv_min_max(triple_expr.min, triple_expr.max) IN
                 IF card.tag # "Ok" THEN card
                 ELSE Ok([rbe |-> mk_card_group(
                                     IF triple_expr.type = "EachOf"
                                     THEN Rbe_and(cs.val.cs) ELSE Rbe_or(cs.val.cs),
                                     card.val),
                          table |-> cs.val.table])
      [] triple_expr.type = "TripleConstraint" ->
            LET min == cnv_min(triple_expr.min) IN
            IF min.tag # "Ok" THEN min
            ELSE LET max == cnv_max(triple_expr.max) IN
            IF max.tag # "Ok" THEN max
            ELSE LET iri == cnv_predicate(triple_expr.predicate) IN
            IF iri.tag # "Ok" THEN iri
            ELSE LET cond == value_expr2match_cond(triple_expr.value_expr, map) IN
            IF cond.tag # "Ok" THEN cond
            ELSE LET c == add_component(current_table, iri.val, cond.val) IN
                 Ok([rbe |-> Rbe_symbol(c.c, min.val, max.val), table |-> c.table])
      [] triple_expr.type = "TripleExprRef" ->
            Err(Todo(<<"TripleExprRef", triple_expr.label>>))

\* SchemaJsonCompiler::compile_shape_expr; idx is the index of the
\* declaration being compiled
RECURSIVE compile_shape_expr(_, _, _)
RECURSIVE compile_shape_exprs(_, _, _, _, _)
compile_shape_exprs(ses, i, cnv, idx, map) ==
    IF i > Len(ses) THEN Ok(cnv)
    ELSE LET se == compile_shape_expr(ses[i], idx, map) IN
         IF se.tag # "Ok" THEN se
         ELSE compile_shape_exprs(ses, i + 1, Append(cnv, se.val), idx, map)
compile_shape_expr(se, idx, map) ==
    CASE se.type = "Ref" ->
            LET i == ref2idx(se, map) IN
            IF i.tag # "Ok" THEN i ELSE Ok(Ref(i.val))
      [] se.type = "ShapeOr" ->
            LET cnv == compile_shape_exprs(se.shape_exprs, 1, <<>>, idx, map) IN
            IF cnv.tag # "Ok" THEN cnv ELSE Ok(ShapeOr(cnv.val))
      [] se.type = "ShapeAnd" ->
            LET cnv == compile_shape_exprs(se.shape_exprs, 1, <<>>, idx, map) IN
            IF cnv.tag # "Ok" THEN cnv ELSE Ok(ShapeAnd(cnv.val))
      [] se.type = "ShapeNot" ->
            LET e == compile_shape_expr(se.shape_expr, idx, map) IN
            IF e.tag # "Ok" THEN e ELSE Ok(ShapeNot(e.val))
      [] se.type = "Shape" ->
            LET new_extra == cnv_extra(se.extra) IN
            IF new_extra.tag # "Ok" THEN new_extra
            ELSE LET rbe_table ==
                        IF se.expression = None THEN Ok(RbeTable_new)
                        ELSE LET rbe == triple_expr2rbe(se.expression[1], map, RbeTable_new) IN
                             IF rbe.tag # "Ok" THEN rbe
                             ELSE Ok(with_rbe(rbe.val.table, rbe.val.rbe))
                 IN IF rbe_table.tag # "Ok" THEN rbe_table
                    ELSE Ok(Shape(cnv_closed(se.closed), new_extra.val, rbe_table.val))
      [] se.type = "NodeConstraint" ->
            LET node_kind_cnv ==
                    cnv_opt([i \in 1..Len(se.node_kind) |-> cnv_node_kind(se.node_kind[i])]) IN
            IF node_kind_cnv.tag # "Ok" THEN node_kind_cnv
            ELSE LET datatype_cnv ==
                    cnv_opt([i \in 1..Len(se.datatype) |-> cnv_iri_ref(se.datatype[i])]) IN
            IF datatype_cnv.tag # "Ok" THEN datatype_cnv
            ELSE LET xs_facet_cnv ==
                    cnv_opt_vec([i \in 1..Len(se.xs_facet) |->
                                   [j \in 1..Len(se.xs_facet[i]) |-> cnv_xs_facet(se.xs_facet[i][j])]]) IN
            IF xs_facet_cnv.tag # "Ok" THEN xs_facet_cnv
            ELSE LET values_cnv ==
                    cnv_opt_vec([i \in 1..Len(se.values) |->
                                   [j \in 1..Len(se.values[i]) |-> cnv_value(se.values[i][j])]]) IN
            IF values_cnv.tag # "Ok" THEN values_cnv
            ELSE LET cond == cnv_node_constraint(se.node_kind, se.datatype,
                                                 se.xs_facet, se.values) IN
            IF cond.tag # "Ok" THEN cond
            ELSE Ok(NodeConstraint(node_kind_cnv.val, datatype_cnv.val,
                                   xs_facet_cnv.val, values_cnv.val, cond.val))
      [] se.type = "ShapeExternal" -> todo("compile_shape_expr: ShapeExternal")

\* SchemaJsonCompiler::compile_shape_decl
compile_shape_decl(sd, idx, map) == compile_shape_expr(sd.shape_expr, idx, map)

-----------------------------------------------------------------------------
(* inputs                                                                  *)

(* nodes (srdf::Object) and the conditions evaluated on them               *)

\* Object::Iri, Object::BlankNode, Object::Literal(Literal::DatatypeLiteral),
\* Object::Literal(Literal::StringLiteral) with lang None or Some(lang)
ObjIri(iri) == [object |-> "Iri", iri |-> iri]
ObjBlankNode(b) == [object |-> "BlankNode", id |-> b]
DatatypeLiteral(lexical_form, datatype) ==
    [object |-> "Literal", literal |-> "DatatypeLiteral",
     lexical_form |-> lexical_form, datatype |-> datatype]
StringLiteral(lexical_form, lang) ==
    [object |-> "Literal", literal |-> "StringLiteral",
     lexical_form |-> lexical_form, lang |-> lang]

\* lazy_static XSD_STRING, RDF_LANG_STRING
XSD_STRING == "http://www.w3.org/2001/XMLSchema#string"
RDF_LANG_STRING == "http://www.w3.org/1999/02/22-rdf-syntax-ns#langString"

\* CompiledSchemaError of the checks on nodes, RbeError::MsgError
NodeKindError(nk, node) ==
    [err |-> CASE nk = "iri" -> "NodeKindIri"
               [] nk = "bnode" -> "NodeKindBNode"
               [] nk = "literal" -> "NodeKindLiteral"
               [] nk = "nonliteral" -> "NodeKindNonLiteral",
     node |-> node]
DatatypeDontMatch(expected, found, lexical_form) ==
    [err |-> "DatatypeDontMatch", expected |-> expected, found |-> found,
     lexical_form |-> lexical_form]
DatatypeDontMatchString(expected, lexical_form) ==
    [err |-> "DatatypeDontMatchString", expected |-> expected,
     lexical_form |-> lexical_form]
DatatypeDontMatchLangString(expected, lexical_form, lang) ==
    [err |-> "DatatypeDontMatchLangString", expected |-> expected,
     lexical_form |-> lexical_form, lang |-> lang]
DatatypeNoLiteral(expected, node) ==
    [err |-> "DatatypeNoLiteral", expected |-> expected, node |-> node]
MsgError(prefix, err) == [err |-> "MsgError", msg |-> <<prefix, err>>]

\* a check_node_node_kind whose non-literal kind takes IRIs only
check_node_node_kind_iri_only(node, nk) ==
    LET ok == CASE nk = "iri" -> node.object = "Iri"
                [] nk = "bnode" -> node.object = "BlankNode"
                [] nk = "literal" -> node.object = "Literal"
                [] nk = "nonliteral" -> node.object = "Iri"
    IN  IF ok THEN OkUnit ELSE Err(NodeKindError(nk, node))

\* check_node_node_kind
check_node_node_kind(node, nk) ==
    LET ok == CASE nk = "iri" -> node.object = "Iri"
                [] nk = "bnode" -> node.object = "BlankNode"
                [] nk = "literal" -> node.object = "Literal"
                [] nk = "nonliteral" -> node.object \in {"BlankNode", "Iri"}
    IN  IF ok THEN OkUnit ELSE Err(NodeKindError(nk, node))

\* a check_node_datatype that takes every string literal for an xsd:string
check_node_datatype_any_string(node, dt) ==
    IF node.object = "Literal" /\ node.literal = "DatatypeLiteral"
    THEN IF dt = node.datatype THEN OkUnit
         ELSE Err(DatatypeDontMatch(dt, node.datatype, node.lexical_form))
    ELSE IF node.object = "Literal" /\ node.literal = "StringLiteral"
    THEN IF dt = XSD_STRING THEN OkUnit
         ELSE Err(DatatypeDontMatchString(dt, node.lexical_form))
    ELSE Err(DatatypeNoLiteral(dt, node))

\* check_node_datatype
check_node_datatype(node, dt) ==
    IF node.object = "Literal" /\ node.literal = "DatatypeLiteral"
    THEN IF dt = node.datatype THEN OkUnit
         ELSE Err(DatatypeDontMatch(dt, node.datatype, node.lexical_form))
    ELSE IF node.object = "Literal" /\ node.literal = "StringLiteral" /\ node.lang = None
    THEN IF dt = XSD_STRING THEN OkUnit
         ELSE Err(DatatypeDontMatchString(dt, node.lexical_form))
    ELSE IF node.object = "Literal" /\ node.literal = "StringLiteral"
    THEN IF dt = RDF_LANG_STRING THEN OkUnit
         ELSE Err(DatatypeDontMatchLangString(dt, node.lexical_form, node.lang[1]))
    ELSE Err(DatatypeNoLiteral(dt, node))

\* Pending::new(), Pending::from_pair: the obligations (node, index) left
\* to the validator
Pending_new == {}
Pending_from_pair(value, idx) == {<<value, idx>>}

\* a closure of mk_cond_ref that leaves no obligation
cond_ref_no_pending(idx, value) == Ok(Pending_new)

\* the closure of mk_cond_ref
cond_ref(idx, value) == Ok(Pending_from_pair(value, idx))

\* the closure of mk_cond_datatype
cond_datatype(datatype, value) ==
    LET r == check_node_datatype(value, datatype) IN
    IF r.tag = "Ok" THEN Ok(Pending_new) ELSE Err(MsgError("Datatype error", r.err))

\* the closure of mk_cond_nodekind
cond_nodekind(nodekind, value) ==
    LET r == check_node_node_kind(value, nodekind) IN
    IF r.tag = "Ok" THEN Ok(Pending_new) ELSE Err(MsgError("NodeKind Error", r.err))

\* SingleCond::matches: the closure the condition holds is applied; a
\* condition without closure accepts
SingleCond_matches(check, value) ==
    CASE check.cond = "ref" -> cond_ref(check.idx, value)
      [] check.cond = "datatype" -> cond_datatype(check.datatype, value)
      [] check.cond = "nodekind" -> cond_nodekind(check.nodekind, value)
      [] check.cond = "any" -> Ok(Pending_new)

\* MatchCond::matches: And merges the obligations of its conditions and
\* stops at the first that fails
RECURSIVE MatchCond_matches(_, _), MatchCond_And_matches(_, _, _, _)
MatchCond_matches(cond, value) ==
    CASE cond.type = "Empty" -> Ok(Pending_new)
      [] cond.type = "Single" -> SingleCond_matches(cond.check, value)
      [] cond.type = "And" -> MatchCond_And_matches(cond.conds, 1, Pending_new, value)
MatchCond_And_matches(conds, i, current, value) ==
    IF i > Len(conds) THEN Ok(current)
    ELSE LET new == MatchCond_matches(conds[i], value) IN
         IF new.tag # "Ok" THEN new
         ELSE MatchCond_And_matches(conds, i + 1, current \cup new.val, value)

-----------------------------------------------------------------------------
(* matching a bag of (predicate, value) items against an RbeTable          *)

\* ValidatorError::RbeFailed, ValidatorError::ClosedShapeWithRemainderPreds
RbeFailed == [err |-> "RbeFailed"]
ClosedShapeWithRemainderPreds(remainder, declared) ==
    [err |-> "ClosedShapeWithRemainderPreds", remainder |-> remainder,
     declared |-> declared]

\* the pattern no bag matches
Rbe_Fail == [type |-> "Fail"]
\* Max decreased by one occurrence
Max_minus_one(max) == IF max = Unbounded THEN Unbounded ELSE IntMax(max[2] - 1)
Min_minus_one(min) == IF min > 0 THEN min - 1 ELSE 0

\* the pattern accepts the empty bag
RECURSIVE nullable(_)
nullable(rbe) ==
    CASE rbe.type = "Symbol" -> rbe.card.min = 0
      [] rbe.type = "And" -> \A i \in DOMAIN rbe.values : nullable(rbe.values[i])
      [] rbe.type = "Or" -> \E i \in DOMAIN rbe.values : nullable(rbe.values[i])
      [] rbe.type = "Star" -> TRUE
      [] rbe.type = "Plus" -> nullable(rbe.value)
      [] rbe.type = "Repeat" -> rbe.card.min = 0 \/ nullable(rbe.value)
      [] rbe.type = "Fail" -> FALSE

\* the pattern that remains after one occurrence of component x: every way
\* of taking the occurrence is kept as an alternative
RECURSIVE deriv(_, _)
deriv(rbe, x) ==
    CASE rbe.type = "Symbol" ->
            IF rbe.value = x /\ rbe.card.max # IntMax(0)
            THEN [rbe EXCEPT !.card = Cardinality_from(Min_minus_one(@.min),
                                                       Max_minus_one(@.max))]
            ELSE Rbe_Fail
      [] rbe.type = "And" ->
            Rbe_or([i \in DOMAIN rbe.values |->
                      Rbe_and([j \in DOMAIN rbe.values |->
                                 IF j = i THEN deriv(rbe.values[j], x)
                                 ELSE rbe.values[j]])])
      [] rbe.type = "Or" ->
            Rbe_or([i \in DOMAIN rbe.values |-> deriv(rbe.values[i], x)])
      [] rbe.type \in {"Star", "Plus"} ->
            Rbe_and(<<deriv(rbe.value, x), Rbe_Star(rbe.value)>>)
      [] rbe.type = "Repeat" ->
            IF rbe.card.max = IntMax(0) THEN Rbe_Fail
            ELSE Rbe_and(<<deriv(rbe.value, x),
                           Rbe_Repeat(rbe.value,
                                      Cardinality_from(Min_minus_one(rbe.card.min),
                                                       Max_minus_one(rbe.card.max)))>>)
      [] rbe.type = "Fail" -> Rbe_Fail

\* the components of the table whose predicate is pred, the predicates of
\* the table
Candidates(table, pred) ==
    {c \in 0..(Len(table.components) - 1) : table.components[c + 1][1] = pred}
TablePreds(table) == {table.components[i][1] : i \in DOMAIN table.components}

\* the items of the bag that some component can take, in the order of the bag
RECURSIVE Claimable(_, _)
Claimable(table, items) ==
    IF items = <<>> THEN <<>>
    ELSE IF Candidates(table, Head(items)[1]) = {}
         THEN Claimable(table, Tail(items))
         ELSE <<Head(items)>> \o Claimable(table, Tail(items))

\* the allocations of the items to components of their predicate, and the
\* order in which they are tried
Allocations(table, items) ==
    {a \in [DOMAIN items -> 0..(Len(table.components) - 1)] :
        \A i \in DOMAIN items : a[i] \in Candidates(table, items[i][1])}
LexLess(a, b) ==
    \E i \in DOMAIN a : a[i] < b[i] /\ \A j \in DOMAIN a : j < i => a[j] = b[j]
FirstOf(allocs) == CHOOSE a \in allocs : \A b \in allocs : a = b \/ LexLess(a, b)

\* the consumptions the match can still make
Budget(m) == Cardinality(m.left) * (Len(m.items) + 2) + (Len(m.items) + 1 - m.k)

\* the post-check of a closed shape: the predicates of the node that no
\* component of the table takes, but for the extra ones
check_closed(shape, bag) ==
    LET declared == TablePreds(shape.rbe_table)
        remainder == ({bag[i][1] : i \in DOMAIN bag} \ declared)
                     \ {shape.extra[i] : i \in DOMAIN shape.extra}
    IN  IF shape.closed /\ remainder # {}
        THEN Err(ClosedShapeWithRemainderPreds(remainder, declared))
        ELSE OkUnit

-----------------------------------------------------------------------------
(* validation of a node against a shape expression                         *)

\* ValidatorError::RbeError, ValidatorError::ShapeAndError
RbeError(e) == [err |-> "RbeError", error |-> e]
ShapeAndError(shape_expr, node, errors) ==
    [err |-> "ShapeAndError", shape_expr |-> shape_expr, node |-> node,
     errors |-> errors]

\* a ValidatorErrors::new that keeps the first error only
ValidatorErrors_first(errs) == [errs |-> IF errs = <<>> THEN <<>> ELSE <<errs[1]>>]

\* ValidatorErrors::new
ValidatorErrors_new(errs) == [errs |-> errs]

\* the node is checked against a node constraint or a conjunction: every
\* branch of a conjunction is checked and the errors of those that fail
\* are collected in the order of the branches
RECURSIVE check_node_shape_expr(_, _), and_errors(_, _, _, _)
check_node_shape_expr(se, node) ==
    CASE se.type = "NodeConstraint" ->
            LET r == MatchCond_matches(se.cond, node) IN
            IF r.tag = "Ok" THEN OkUnit ELSE Err(RbeError(r.err))
      [] se.type = "ShapeAnd" ->
            LET errs == and_errors(se.exprs, 1, <<>>, node) IN
            IF errs = <<>> THEN OkUnit
            ELSE Err(ShapeAndError(se, node, ValidatorErrors_new(errs)))
and_errors(es, i, errs, node) ==
    IF i > Len(es) THEN errs
    ELSE LET r == check_node_shape_expr(es[i], node) IN
         and_errors(es, i + 1, IF r.tag = "Ok" THEN errs ELSE Append(errs, r.err), node)

-----------------------------------------------------------------------------
(* shex_compact grammar: parsers over &str. A string is the sequence of    *)
(* its characters; a character is a one-character string, "SP", "LF" and   *)
(* "CR" are the space, \n and \r, and "U+00E9" is a letter that takes two  *)
(* bytes in UTF-8. A parser returns Ok of the remaining input and its      *)
(* output, an error, or panics.                                            *)

Lower == {"a", "b", "c", "e", "f", "i", "n", "p", "r", "u", "x"}
Upper == {"A", "E", "F", "I", "P", "R", "X"}
Chars == Lower \cup Upper \cup
         {"1", "-", ".", ":", "#", "<", ">", "SP", "LF", "CR", "U+00E9"}
\* char::len_utf8, char::to_ascii_lowercase
len_utf8(c) == IF c = "U+00E9" THEN 2 ELSE 1
to_lowercase(c) ==
    CASE c = "A" -> "a" [] c = "E" -> "e" [] c = "F" -> "f" [] c = "I" -> "i"
      [] c = "P" -> "p" [] c = "R" -> "r" [] c = "X" -> "x" [] OTHER -> c

Parsed(rest, out) == Ok([rest |-> rest, out |-> out])
\* nom::Err::Error(error_position!(i, kind)), nom::Err::Incomplete
ParseError(i, kind) == Err([err |-> "Error", input |-> i, kind |-> kind])
Incomplete == Err([err |-> "Incomplete"])

\* &i[n..] and i.take_split(n) for n = 1: the byte index must be a char
\* boundary
slice_from_1(i) ==
    IF len_utf8(i[1]) = 1 THEN Ok(Tail(i)) ELSE Panic("byte index 1 is not a char boundary")
take_split_1(i) ==
    IF len_utf8(i[1]) = 1 THEN Parsed(Tail(i), <<i[1]>>)
    ELSE Panic("byte index 1 is not a char boundary")

\* nom take_while(f), take_while1(f), char(c) for the predicate that holds
\* on the characters of S
take_while(S, i) ==
    LET n == CHOOSE k \in 0..Len(i) :
                 /\ \A j \in 1..k : i[j] \in S
                 /\ k = Len(i) \/ i[k + 1] \notin S
    IN  Parsed(SubSeq(i, n + 1, Len(i)), SubSeq(i, 1, n))
take_while1(S, i) ==
    IF i = <<>> \/ i[1] \notin S THEN ParseError(i, "TakeWhile1") ELSE take_while(S, i)
char(c, i) ==
    IF i = <<>> \/ i[1] # c THEN ParseError(i, "Char") ELSE Parsed(Tail(i), c)

\* not_eol
not_eol(c) == c # "LF" /\ c # "CR"

\* a comment that takes \r\n for one end of line
comment_crlf(i) ==
    LET hash == char("#", i) IN
    IF hash.tag # "Ok" THEN hash
    ELSE LET c == take_while({ch \in Chars : not_eol(ch)}, hash.val.rest) IN
         IF c.val.rest = <<>> THEN Parsed(c.val.rest, c.val.out)
         ELSE IF Len(c.val.rest) >= 2 /\ c.val.rest[1] = "CR" /\ c.val.rest[2] = "LF"
         THEN Parsed(Tail(Tail(c.val.rest)), c.val.out)
         ELSE Parsed(Tail(c.val.rest), c.val.out)

\* comment
comment(i) ==
    LET hash == char("#", i) IN
    IF hash.tag # "Ok" THEN hash
    ELSE LET c == take_while({ch \in Chars : not_eol(ch)}, hash.val.rest) IN
         IF c.val.rest = <<>> THEN Parsed(c.val.rest, c.val.out)
         ELSE LET rest == slice_from_1(c.val.rest) IN
              IF rest.tag # "Ok" THEN rest ELSE Parsed(rest.val, c.val.out)

\* tws: whitespace that may contain comments
RECURSIVE tws(_)
tws(i) ==
    IF i # <<>> /\ i[1] \in {"SP", "LF", "CR"} THEN tws(Tail(i))
    ELSE LET c == comment(i) IN
         IF c.tag = "Ok" THEN tws(c.val.rest)
         ELSE IF c.tag = "Panic" THEN c
         ELSE Parsed(i, <<>>)

\* is_alpha, is_digit, is_pn_chars_base, is_pn_chars_u, is_pn_chars, is_iri_ref
is_alpha(c) == c \in Lower \cup Upper
is_digit(c) == c = "1"
is_pn_chars_base(c) == is_alpha(c) \/ c = "U+00E9"
is_pn_chars_u(c) == c = "_" \/ is_pn_chars_base(c)
is_pn_chars(c) == is_pn_chars_u(c) \/ c = "-" \/ is_digit(c)
is_iri_ref(chr) == chr \notin {"SP", "LF", "CR", "<", ">"}
PnChars == {c \in Chars : is_pn_chars(c)}

\* one_if(f) for f = is_pn_chars_base
one_if(i) ==
    IF i = <<>> THEN Incomplete
    ELSE IF is_pn_chars_base(i[1]) THEN take_split_1(i)
    ELSE ParseError(i, "OneOf")

\* fold_many0(tuple((char('.'), take_while1(is_pn_chars)))): the input that
\* remains after the groups of a dot and characters
RECURSIVE dot_groups(_)
dot_groups(i) ==
    LET dot == char(".", i) IN
    IF dot.tag # "Ok" THEN i
    ELSE LET cs == take_while1(PnChars, dot.val.rest) IN
         IF cs.tag # "Ok" THEN i ELSE dot_groups(cs.val.rest)

\* pn_prefix: recognize gives the part of the input the three parsers took
pn_prefix(i) ==
    LET first == one_if(i) IN
    IF first.tag # "Ok" THEN first
    ELSE LET rest == dot_groups(take_while(PnChars, first.val.rest).val.rest) IN
         Parsed(rest, SubSeq(i, 1, Len(i) - Len(rest)))

\* pname_ns: opt turns the Error of pn_prefix into no prefix
pname_ns(i) ==
    LET p == pn_prefix(i)
        none == p.tag = "Err" /\ p.err.err = "Error"
    IN  IF p.tag # "Ok" /\ ~none THEN p
        ELSE LET colon == char(":", IF none THEN i ELSE p.val.rest) IN
             IF colon.tag # "Ok" THEN colon
             ELSE Parsed(colon.val.rest, IF none THEN <<>> ELSE p.val.out)

\* iri_ref
iri_ref(i) ==
    LET open == char("<", i) IN
    IF open.tag # "Ok" THEN open
    ELSE LET iri == take_while({c \in Chars : is_iri_ref(c)}, open.val.rest)
             close == char(">", iri.val.rest)
         IN  IF close.tag # "Ok" THEN close ELSE Parsed(close.val.rest, iri.val.out)

\* tag_no_case("PREFIX")
tag_no_case_PREFIX(i) ==
    LET t == <<"p", "r", "e", "f", "i", "x">> IN
    IF Len(i) >= Len(t) /\ \A j \in DOMAIN t : to_lowercase(i[j]) = t[j]
    THEN Parsed(SubSeq(i, Len(t) + 1, Len(i)), SubSeq(i, 1, Len(t)))
    ELSE ParseError(i, "Tag")

\* prefix_decl
prefix_decl(i) ==
    LET kw == tag_no_case_PREFIX(i) IN
    IF kw.tag # "Ok" THEN kw
    ELSE LET w1 == tws(kw.val.rest) IN
    IF w1.tag # "Ok" THEN w1
    ELSE LET alias == pname_ns(w1.val.rest) IN
    IF alias.tag # "Ok" THEN alias
    ELSE LET w2 == tws(alias.val.rest) IN
    IF w2.tag # "Ok" THEN w2
    ELSE LET iri == iri_ref(w2.val.rest) IN
    IF iri.tag # "Ok" THEN iri
    ELSE Parsed(iri.val.rest, [stmt |-> "PrefixDecl", alias |-> alias.val.out,
                               iri |-> iri.val.out])

-----------------------------------------------------------------------------

\* IRIs of shape declarations and references, predicates, a datatype
ShapeIds == {"x:a", "x:b"}
PrefixMaps == {None, Some([ex |-> "x:"]), Some([ex |-> "x:", ey |-> "y:"])}
\* references passed to find_ref
SeRefs ==
    {LIri(i) : i \in {"x:a", "x:b", "y:a"}}
    \cup {LPrefixed(p, l) : p \in {"ex", "ey"}, l \in {"a", "b"}}
    \cup {LBNode("b1"), LStart}

NcAny == SNodeConstraint(None, None, None, None)
NcDatatype == SNodeConstraint(None, Some("x:dt"), None, None)
NcNodeKind == SNodeConstraint(Some("iri"), None, None, None)

\* bodies of shape declarations
ShapeExprs ==
    { SRefIri("x:a"),
      SShapeAnd(<<SRefIri("x:b"), NcDatatype>>),
      SShapeOr(<<SShapeNot(SRefIri("x:a")), NcAny>>),
      SShape(None, None, Some(STripleConstraint("x:p", Some(SRefIri("x:b")), None, None))),
      SShape(Some(TRUE), Some(<<"x:q">>),
             Some(SEachOf(<<STripleConstraint("x:p", None, Some(0), Some(-1)),
                            STripleConstraint("x:q", Some(NcNodeKind), None, None)>>,
                          None, None))),
      SShape(None, None, Some(STripleConstraint("x:p", None, Some(-1), None))),
      NcNodeKind,
      SRefBNode("b1") }

ShapeDecls == {ShapeDecl(id, se) : id \in ShapeIds, se \in ShapeExprs}
\* the sequences of at most n elements of S
SeqsUpTo(S, n) == UNION {[1..k -> S] : k \in 0..n}

\* the schemas of at most n declarations, n capped by MaxDecls
Schemas(n) ==
    LET m == IF n < MaxDecls THEN n ELSE MaxDecls IN
    {Schema(None)} \cup
    {Schema(Some(sds)) : sds \in SeqsUpTo(ShapeDecls, m)}

\* the schemas of error propagation: at most n declarations, n capped by
\* FatalDecls, whose bodies lower or fail with an error value
FatalExprs == {NcAny, SRefIri("x:c"), SShapeExternal}
FatalSchemas(n) ==
    LET m == IF n < FatalDecls THEN n ELSE FatalDecls IN
    {Schema(Some(sds)) :
        sds \in SeqsUpTo({ShapeDecl(id, se) : id \in ShapeIds, se \in FatalExprs}, m)}

\* Option<i32> min and max of a triple expression: the values around the
\* limits of the conversions and the two ends of i32
CardInts == (-CardRange .. CardRange) \cup {(-(2^30)) * 2, (2^30 - 1) + 2^30}
OptCards == {None} \cup {Some(n) : n \in CardInts}

\* labels and expressions a caller passes to add_shape and replace_shape
ApiLabels == {Iri("x:a"), Iri("x:b"), Start}
RefLabels == {Iri("x:a"), Iri("y:a"), BNode("b1"), Start}
ApiExprs == {Empty, Ref(MaxIdx + 1)}

-----------------------------------------------------------------------------
(* CompiledSchema: the functions that write                                *)

\* an add_shape that does not advance the counter
add_shape_same_idx(shape_label, se) ==
    LET idx == shape_label_counter IN
    /\ shape_labels_map' =
          [l \in DOMAIN shape_labels_map \cup {shape_label} |->
              IF l = shape_label THEN idx ELSE shape_labels_map[l]]
    /\ shapes' =
          [i \in DOMAIN shapes \cup {idx} |->
              IF i = idx THEN <<shape_label, se>> ELSE shapes[i]]
    /\ shape_label_counter' = shape_label_counter

\* an add_shape that maps the label to the index after the one of its entry
add_shape_next_idx(shape_label, se) ==
    LET idx == shape_label_counter IN
    /\ shape_labels_map' =
          [l \in DOMAIN shape_labels_map \cup {shape_label} |->
              IF l = shape_label THEN incr(idx) ELSE shape_labels_map[l]]
    /\ shapes' =
          [i \in DOMAIN shapes \cup {idx} |->
              IF i = idx THEN <<shape_label, se>> ELSE shapes[i]]
    /\ shape_label_counter' = incr(shape_label_counter)

\* CompiledSchema::add_shape
add_shape(shape_label, se) ==
    LET idx == shape_label_counter IN
    /\ shape_labels_map' =
          [l \in DOMAIN shape_labels_map \cup {shape_label} |->
              IF l = shape_label THEN idx ELSE shape_labels_map[l]]
    /\ shapes' =
          [i \in DOMAIN shapes \cup {idx} |->
              IF i = idx THEN <<shape_label, se>> ELSE shapes[i]]
    /\ shape_label_counter' = incr(shape_label_counter)

\* a replace_shape that keeps the entry
replace_shape_kept(idx, se) == shapes' = shapes

\* a replace_shape that stores the expression at a further index
replace_shape_further(idx, se) ==
    LET new == Cardinality(DOMAIN shapes) IN
    shapes' = IF idx \in DOMAIN shapes
              THEN [i \in DOMAIN shapes \cup {new} |->
                       IF i = new THEN <<shapes[idx][1], se>> ELSE shapes[i]]
              ELSE shapes

\* a replace_shape that creates the entry of an absent index
replace_shape_or_insert(idx, se) ==
    shapes' = [i \in DOMAIN shapes \cup {idx} |->
                  IF i = idx
                  THEN <<IF idx \in DOMAIN shapes THEN shapes[idx][1] ELSE Start, se>>
                  ELSE shapes[i]]

\* CompiledSchema::replace_shape
replace_shape(idx, se) ==
    shapes' = IF idx \in DOMAIN shapes
              THEN [shapes EXCEPT ![idx] = <<@[1], se>>]
              ELSE shapes

-----------------------------------------------------------------------------
(* the state machine                                                       *)

\* CompiledSchema::new()
Init ==
    /\ shape_labels_map = EmptyMap
    /\ shapes = EmptyMap
    /\ shape_label_counter = ShapeLabelIdxDefault
    /\ prefixmap = PrefixMap_new
    /\ shape_decls_counter = 0
    /\ schema_json = None
    /\ pc = "idle"
    /\ pos = 1
    /\ call = NoCall
    /\ result = NoResult
    /\ run = NoRun

\* a call other than from_schema_json returns r
Returns(c, r) ==
    /\ call' = c
    /\ result' = r
    /\ schema_json' = None
    /\ shape_decls_counter' = 0
    /\ UNCHANGED <<pc, pos, run>>

\* CompiledSchema::set_prefixmap
SetPrefixmap(pm) ==
    /\ pc = "idle"
    /\ prefixmap' = IF pm = None THEN PrefixMap_new ELSE pm[1]
    /\ Returns(NoCall, NoResult)
    /\ UNCHANGED <<shape_labels_map, shapes, shape_label_counter>>

\* a caller's add_shape
AddShape(shape_label, se) ==
    /\ pc = "idle"
    /\ add_shape(shape_label, se)
    /\ Returns(NoCall, NoResult)
    /\ UNCHANGED prefixmap

\* a caller's replace_shape
ReplaceShape(idx, se) ==
    /\ pc = "idle"
    /\ replace_shape(idx, se)
    /\ Returns(NoCall, NoResult)
    /\ UNCHANGED <<shape_labels_map, shape_label_counter, prefixmap>>

\* CompiledSchema::from_schema_json: a new SchemaJsonCompiler, then compile
FromSchemaJson(schema) ==
    /\ pc = "idle"
    /\ schema_json' = Some(schema)
    /\ shape_decls_counter' = 0
    /\ pc' = "collect_shape_labels"
    /\ pos' = 1
    /\ call' = NoCall
    /\ result' = NoResult
    /\ UNCHANGED <<schema_vars, run>>

\* compile returns r to from_schema_json, which returns it to its caller
CompileReturns(r) ==
    /\ result' = IF r.tag = "Ok" THEN OkUnit ELSE r
    /\ pc' = IF r.tag = "Panic" THEN "panicked" ELSE "idle"
    /\ UNCHANGED <<schema_json, pos, call, run>>

\* a collect_shape_labels that registers the first declaration only
CollectShapeLabels_first ==
    /\ pc = "collect_shape_labels"
    /\ LET sds == DeclsOf(schema_json[1]) IN
       IF pos <= Len(sds) /\ pos <= 1
       THEN LET label == id_to_shape_label(sds[pos].id) IN
            IF label.tag # "Ok"
            THEN /\ CompileReturns(label)
                 /\ UNCHANGED <<schema_vars, shape_decls_counter>>
            ELSE /\ add_shape(label.val, Empty)
                 /\ shape_decls_counter' = shape_decls_counter + 1
                 /\ pos' = pos + 1
                 /\ UNCHANGED <<prefixmap, schema_json, pc, call, result, run>>
       ELSE /\ pc' = "collect_shape_exprs"
            /\ pos' = 1
            /\ UNCHANGED <<schema_vars, shape_decls_counter, schema_json, call, result, run>>

\* SchemaJsonCompiler::collect_shape_labels: one turn of its loop
CollectShapeLabels ==
    /\ pc = "collect_shape_labels"
    /\ LET sds == DeclsOf(schema_json[1]) IN
       IF pos <= Len(sds)
       THEN LET label == id_to_shape_label(sds[pos].id) IN
            IF label.tag # "Ok"
            THEN /\ CompileReturns(label)
                 /\ UNCHANGED <<schema_vars, shape_decls_counter>>
            ELSE /\ add_shape(label.val, Empty)
                 /\ shape_decls_counter' = shape_decls_counter + 1
                 /\ pos' = pos + 1
                 /\ UNCHANGED <<prefixmap, schema_json, pc, call, result, run>>
       ELSE /\ pc' = "collect_shape_exprs"
            /\ pos' = 1
            /\ UNCHANGED <<schema_vars, shape_decls_counter, schema_json, call, result, run>>

\* SchemaJsonCompiler::collect_shape_exprs: one turn of its loop
CollectShapeExprs ==
    /\ pc = "collect_shape_exprs"
    /\ UNCHANGED <<shape_labels_map, shape_label_counter, prefixmap, shape_decls_counter>>
    /\ LET sds == DeclsOf(schema_json[1]) IN
       IF pos <= Len(sds)
       THEN LET idx == get_shape_label_idx(sds[pos].id, shape_labels_map) IN
            IF idx.tag # "Ok"
            THEN CompileReturns(idx) /\ UNCHANGED shapes
            ELSE LET se == compile_shape_decl(sds[pos], idx.val, shape_labels_map) IN
                 IF se.tag # "Ok"
                 THEN CompileReturns(se) /\ UNCHANGED shapes
                 ELSE /\ replace_shape(idx.val, se.val)
                      /\ pos' = pos + 1
                      /\ UNCHANGED <<schema_json, pc, call, result, run>>
       ELSE CompileReturns(OkUnit) /\ UNCHANGED shapes

\* a caller's find_ref
FindRef(se_ref) ==
    /\ pc = "idle"
    /\ Returns([fn |-> "find_ref", se_ref |-> se_ref],
               find_ref(shape_labels_map, prefixmap, se_ref))
    /\ UNCHANGED schema_vars

Next ==
    \/ \E l \in ApiLabels, se \in ApiExprs :
          shape_label_counter < MaxIdx /\ AddShape(l, se)
    \/ \E idx \in 0..MaxIdx, se \in ApiExprs : ReplaceShape(idx, se)
    \/ \E schema \in Schemas(MaxIdx - shape_label_counter) : FromSchemaJson(schema)
    \/ CollectShapeLabels
    \/ CollectShapeExprs

Spec == Init /\ [][Next]_vars

\* resolution of references: prefix maps, registered labels, find_ref
NextRefs ==
    \/ \E pm \in PrefixMaps : SetPrefixmap(pm)
    \/ \E l \in RefLabels : shape_label_counter < MaxIdx /\ AddShape(l, Empty)
    \/ \E se_ref \in SeRefs : FindRef(se_ref)

SpecRefs == Init /\ [][NextRefs]_vars

\* compilation of schemas whose bodies lower or fail with an error value
NextFatal ==
    \/ \E schema \in FatalSchemas(FatalDecls - shape_label_counter) : FromSchemaJson(schema)
    \/ CollectShapeLabels
    \/ CollectShapeExprs

SpecFatal == Init /\ [][NextFatal]_vars

\* a call of cnv_min, of cnv_max, of cnv_min_max
CnvMin(min) ==
    /\ pc = "idle"
    /\ Returns([fn |-> "cnv_min", min |-> min], cnv_min(min))
    /\ UNCHANGED schema_vars
CnvMax(max) ==
    /\ pc = "idle"
    /\ Returns([fn |-> "cnv_max", max |-> max], cnv_max(max))
    /\ UNCHANGED schema_vars
CnvMinMax(min, max) ==
    /\ pc = "idle"
    /\ Returns([fn |-> "cnv_min_max", min |-> min, max |-> max], cnv_min_max(min, max))
    /\ UNCHANGED schema_vars

\* the conversions of cardinalities
NextCard ==
    \/ \E min \in OptCards : CnvMin(min)
    \/ \E max \in OptCards : CnvMax(max)
    \/ \E min \in OptCards, max \in OptCards : CnvMinMax(min, max)

SpecCard == Init /\ [][NextCard]_vars

\* a caller's replace_shape, its arguments kept in call
ReplaceShapeCall(idx, se) ==
    /\ pc = "idle"
    /\ replace_shape(idx, se)
    /\ Returns([fn |-> "replace_shape", idx |-> idx, se |-> se], OkUnit)
    /\ UNCHANGED <<shape_labels_map, shape_label_counter, prefixmap>>

\* the operations on the table of shapes: every writer and a reader
NextTable ==
    \/ \E pm \in PrefixMaps : SetPrefixmap(pm)
    \/ \E l \in ApiLabels, se \in ApiExprs :
          shape_label_counter < MaxIdx /\ AddShape(l, se)
    \/ \E idx \in 0..MaxIdx, se \in ApiExprs : ReplaceShapeCall(idx, se)
    \/ \E schema \in FatalSchemas(MaxIdx - shape_label_counter) : FromSchemaJson(schema)
    \/ CollectShapeLabels
    \/ CollectShapeExprs
    \/ \E se_ref \in {LIri("x:a"), LStart} : FindRef(se_ref)

SpecTable == Init /\ [][NextTable]_vars

\* the validations that share a compiled schema, the schemas they are given
\* and the calls they make
Validations == {"v1", "v2"}
ReaderSchemas ==
    { Schema(Some(<<ShapeDecl("x:a", SRefIri("x:b")), ShapeDecl("x:b", NcAny)>>)),
      Schema(Some(<<ShapeDecl("x:a", NcDatatype)>>)) }
ReaderLabels == {Iri("x:a"), Iri("x:c")}
ReaderCalls ==
    {[fn |-> "find_ref", arg |-> r] : r \in {LIri("x:a"), LPrefixed("ex", "b"), LStart}}
    \cup {[fn |-> f, arg |-> l] :
             f \in {"find_label", "find_shape_label_idx", "get_shape_expr",
                    "get_shape_label_idx", "show_label"},
             l \in ReaderLabels}
    \cup {[fn |-> "find_shape_idx", arg |-> i] : i \in {ShapeLabelIdxDefault, MaxIdx}}
    \cup {[fn |-> f, arg |-> None] : f \in {"existing_labels", "shapes"}}

\* the compiled schema is handed to the validations
StartValidations ==
    /\ pc = "idle"
    /\ schema_json # None
    /\ result = OkUnit
    /\ run = NoRun
    /\ run' = [at |-> "validating",
               schema |-> schema_vars,
               of |-> [v \in Validations |-> [st |-> "idle"]]]
    /\ UNCHANGED <<schema_vars, shape_decls_counter, schema_json, pc, pos, call, result>>

\* validation v calls a read function
ReaderCalled(v, c) ==
    /\ run.at = "validating"
    /\ run.of[v].st # "called"
    /\ run' = [run EXCEPT !.of[v] = [st |-> "called", call |-> c]]
    /\ UNCHANGED <<schema_vars, shape_decls_counter, schema_json, pc, pos, call, result>>

\* a find_ref that registers the label it does not find
ReaderReturns_registering(v) ==
    /\ run.at = "validating"
    /\ run.of[v].st = "called"
    /\ LET c == run.of[v].call
           r == read(c, shape_labels_map, shapes, prefixmap)
       IN  /\ run' = [run EXCEPT !.of[v] = [st |-> "returned", call |-> c, result |-> r]]
           /\ IF c.fn = "find_ref" /\ r.tag = "Err" /\ r.err.err = "LabelNotFound"
              THEN add_shape(r.err.shape_label, Empty)
              ELSE UNCHANGED <<shape_labels_map, shapes, shape_label_counter>>
    /\ UNCHANGED <<prefixmap, shape_decls_counter, schema_json, pc, pos, call, result>>

\* the read function validation v called returns: find_ref, find_label,
\* find_shape_label_idx, find_shape_idx, get_shape_expr, get_shape_label_idx,
\* existing_labels, shapes, show_label
ReaderReturns(v) ==
    /\ run.at = "validating"
    /\ run.of[v].st = "called"
    /\ LET c == run.of[v].call IN
       run' = [run EXCEPT !.of[v] =
                  [st |-> "returned", call |-> c,
                   result |-> read(c, shape_labels_map, shapes, prefixmap)]]
    /\ UNCHANGED <<schema_vars, shape_decls_counter, schema_json, pc, pos, call, result>>

\* compilation, then read functions called by concurrent validations
NextReaders ==
    \/ \E pm \in PrefixMaps : run = NoRun /\ SetPrefixmap(pm)
    \/ \E schema \in ReaderSchemas :
          /\ run = NoRun
          /\ shape_label_counter + Len(DeclsOf(schema)) <= MaxIdx
          /\ FromSchemaJson(schema)
    \/ CollectShapeLabels
    \/ CollectShapeExprs
    \/ StartValidations
    \/ \E v \in Validations, c \in ReaderCalls : ReaderCalled(v, c)
    \/ \E v \in Validations : ReaderReturns(v)

SpecReaders == Init /\ [][NextReaders]_vars

\* nodes, datatypes, node kinds and conditions of the checks on nodes
Datatypes == {XSD_STRING, RDF_LANG_STRING, "x:dt"}
Nodes ==
    {ObjIri("x:n"), ObjBlankNode("b1"),
     StringLiteral("s", None), StringLiteral("s", Some("en"))}
    \cup {DatatypeLiteral("1", dt) : dt \in Datatypes}
NodeKinds == {"iri", "bnode", "literal", "nonliteral"}
Conds ==
    {mk_cond_ref(idx) : idx \in 0..MaxIdx}
    \cup {mk_cond_datatype(dt) : dt \in Datatypes}
    \cup {mk_cond_nodekind(nk) : nk \in NodeKinds}
    \cup {cond_any, MatchCond_empty,
          MatchCond_And(<<mk_cond_nodekind("literal"), mk_cond_ref(0)>>),
          MatchCond_And(<<mk_cond_ref(0), mk_cond_datatype(XSD_STRING), mk_cond_ref(MaxIdx)>>)}

\* a call of check_node_datatype, of check_node_node_kind
CheckNodeDatatype(node, dt) ==
    /\ pc = "idle"
    /\ Returns([fn |-> "check_node_datatype", node |-> node, dt |-> dt],
               check_node_datatype(node, dt))
    /\ UNCHANGED schema_vars
CheckNodeNodeKind(node, nk) ==
    /\ pc = "idle"
    /\ Returns([fn |-> "check_node_node_kind", node |-> node, nk |-> nk],
               check_node_node_kind(node, nk))
    /\ UNCHANGED schema_vars
\* a condition of a compiled schema is applied to a node
CondMatches(cond, value) ==
    /\ pc = "idle"
    /\ Returns([fn |-> "matches", cond |-> cond, value |-> value],
               MatchCond_matches(cond, value))
    /\ UNCHANGED schema_vars

\* the checks on nodes
NextCond ==
    \/ \E node \in Nodes, dt \in Datatypes : CheckNodeDatatype(node, dt)
    \/ \E node \in Nodes, nk \in NodeKinds : CheckNodeNodeKind(node, nk)
    \/ \E cond \in Conds, value \in Nodes : CondMatches(cond, value)

SpecCond == Init /\ [][NextCond]_vars

\* the largest bag of a node
MaxBag == 3
\* the kinds of (predicate, value) items of a node, the bags of at most
\* MaxBag items given by the number of items of each kind, their items
ItemKinds ==
    << <<"x:p", StringLiteral("s", None)>>, <<"x:p", ObjIri("x:n")>>,
       <<"x:q", StringLiteral("s", None)>>, <<"x:q", ObjIri("x:n")>>,
       <<"x:r", ObjIri("x:n")>> >>
RECURSIVE SumTo(_, _)
SumTo(b, i) == IF i = 0 THEN 0 ELSE b[i] + SumTo(b, i - 1)
Bags == {b \in [DOMAIN ItemKinds -> 0..MaxBag] : SumTo(b, Len(ItemKinds)) <= MaxBag}
RECURSIVE BagItems(_, _)
BagItems(b, i) ==
    IF i > Len(ItemKinds) THEN <<>>
    ELSE [j \in 1..b[i] |-> ItemKinds[i]] \o BagItems(b, i + 1)

\* shapes that nodes are matched against: the label of x:a is at index 0
NcString == SNodeConstraint(None, Some(XSD_STRING), None, None)
MatchMap == [l \in {Iri("x:a")} |-> ShapeLabelIdxDefault]
TcP(min, max) == STripleConstraint("x:p", None, min, max)
TripleExprs ==
    { TcP(None, None), TcP(Some(0), Some(-1)), TcP(Some(1), Some(-1)),
      TcP(Some(0), Some(1)), TcP(Some(2), Some(3)),
      SEachOf(<<STripleConstraint("x:p", Some(NcString), None, None),
                STripleConstraint("x:p", None, None, None)>>, None, None),
      SEachOf(<<STripleConstraint("x:p", None, None, None),
                STripleConstraint("x:p", Some(NcString), None, None)>>, None, None),
      SOneOf(<<TcP(None, None),
               SEachOf(<<TcP(None, None),
                         STripleConstraint("x:q", Some(SRefIri("x:a")), None, None)>>,
                       None, None)>>, None, None),
      SEachOf(<<TcP(None, None), STripleConstraint("x:q", None, None, None)>>,
              Some(0), Some(-1)),
      SOneOf(<<TcP(None, None), STripleConstraint("x:q", None, Some(0), Some(1))>>,
             Some(1), Some(2)) }
MatchShapes ==
    {SShape(None, None, Some(te)) : te \in TripleExprs}
    \cup { SShape(Some(TRUE), Some(<<"x:q">>), Some(TcP(None, None))),
           SShape(Some(TRUE), None, Some(TcP(Some(0), Some(-1)))),
           SShape(Some(FALSE), None, Some(TcP(Some(1), Some(-1)))) }

\* an Abandon that takes the same allocation again
Abandon_again(m) ==
    [m EXCEPT !.k = 1, !.cur = m.shape.rbe_table.rbe[1], !.pending = Pending_new]

\* the match abandons the allocation it is at: the next one is tried, and
\* the match fails when none is left
Abandon(m) ==
    IF m.left = {}
    THEN [m EXCEPT !.at = "matched", !.result = Err(RbeFailed), !.outcome = Err(RbeFailed)]
    ELSE LET a == FirstOf(m.left) IN
         [m EXCEPT !.alloc = a, !.left = @ \ {a}, !.tried = @ + 1, !.k = 1,
                   !.cur = m.shape.rbe_table.rbe[1], !.pending = Pending_new]

\* the state of a match of the items of bag against the compiled shape
StartOf(se, bag, shape) ==
    LET items == Claimable(shape.rbe_table, bag)
        allocs == Allocations(shape.rbe_table, items)
        a == FirstOf(allocs)
    IN  [at |-> "matching", se |-> se, bag |-> bag, shape |-> shape, items |-> items,
         alloc |-> a, left |-> allocs \ {a}, tried |-> 0, k |-> 1,
         cur |-> shape.rbe_table.rbe[1], pending |-> Pending_new,
         result |-> NoResult, outcome |-> NoResult]

\* the shape se is compiled and a node with the items of bag b is matched
\* against it
MatchStart(se, b) ==
    /\ pc = "idle"
    /\ run = NoRun
    /\ \E shape \in {compile_shape_expr(se, ShapeLabelIdxDefault, MatchMap)} :
          /\ shape.tag = "Ok"
          /\ run' = StartOf(se, BagItems(b, 1), shape.val)
    /\ UNCHANGED <<schema_vars, shape_decls_counter, schema_json, pc, pos, call, result>>

\* the next item goes to the component the allocation gives it: the
\* condition of the component is applied to the value and one occurrence of
\* the component is taken from the pattern
MatchConsume ==
    /\ run.at = "matching"
    /\ run.k <= Len(run.items)
    /\ LET c == run.alloc[run.k]
           r == MatchCond_matches(run.shape.rbe_table.components[c + 1][2],
                                  run.items[run.k][2])
       IN  run' = IF r.tag # "Ok" THEN Abandon(run)
                  ELSE [run EXCEPT !.k = @ + 1, !.cur = deriv(@, c),
                                   !.pending = @ \cup r.val]
    /\ UNCHANGED <<schema_vars, shape_decls_counter, schema_json, pc, pos, call, result>>

\* every item has been taken: the match succeeds with the obligations
\* collected when what remains of the pattern accepts the empty bag; a
\* closed shape is then checked for predicates no component takes
MatchEnd ==
    /\ run.at = "matching"
    /\ run.k > Len(run.items)
    /\ run' = IF nullable(run.cur)
              THEN [run EXCEPT !.at = "matched", !.result = Ok(run.pending),
                               !.outcome = LET r == check_closed(run.shape, run.bag) IN
                                           IF r.tag = "Ok" THEN Ok(run.pending) ELSE r]
              ELSE Abandon(run)
    /\ UNCHANGED <<schema_vars, shape_decls_counter, schema_json, pc, pos, call, result>>

\* the matches of nodes against shapes
NextMatch ==
    \/ \E se \in MatchShapes, b \in Bags : MatchStart(se, b)
    \/ MatchConsume
    \/ MatchEnd

SpecMatch == Init /\ [][NextMatch]_vars
\* a match that has started is run to its end
FairMatch == SpecMatch /\ WF_vars(MatchConsume) /\ WF_vars(MatchEnd)

\* conjunctions of node constraints on the datatype, one of them nested
NcOf(dt) == SNodeConstraint(None, Some(dt), None, None)
AndShapes ==
    {SShapeAnd(<<NcOf(a), NcOf(b)>>) : a \in Datatypes, b \in Datatypes}
    \cup {SShapeAnd(<<NcOf(XSD_STRING),
                      SShapeAnd(<<NcOf("x:dt"), NcOf(RDF_LANG_STRING)>>)>>)}

\* the conjunction se is compiled and a node is checked against it
CheckStart(se, node) ==
    /\ pc = "idle"
    /\ run = NoRun
    /\ \E c \in {compile_shape_expr(se, ShapeLabelIdxDefault, MatchMap)} :
          /\ c.tag = "Ok"
          /\ run' = [at |-> "checking", se |-> c.val, node |-> node, i |-> 1,
                     errs |-> <<>>, seen |-> <<>>, result |-> NoResult]
    /\ UNCHANGED <<schema_vars, shape_decls_counter, schema_json, pc, pos, call, result>>

\* the next branch of the conjunction is checked, whatever the branches
\* before it gave
CheckBranch ==
    /\ run.at = "checking"
    /\ run.i <= Len(run.se.exprs)
    /\ \E r \in {check_node_shape_expr(run.se.exprs[run.i], run.node)} :
          run' = [run EXCEPT !.i = @ + 1, !.seen = Append(@, r),
                             !.errs = IF r.tag = "Ok" THEN @ ELSE Append(@, r.err)]
    /\ UNCHANGED <<schema_vars, shape_decls_counter, schema_json, pc, pos, call, result>>

\* every branch has been checked: the conjunction holds when none failed
CheckEnd ==
    /\ run.at = "checking"
    /\ run.i > Len(run.se.exprs)
    /\ run' = [run EXCEPT
                  !.at = "checked",
                  !.result = IF run.errs = <<>> THEN OkUnit
                             ELSE Err(ShapeAndError(run.se, run.node,
                                                    ValidatorErrors_new(run.errs)))]
    /\ UNCHANGED <<schema_vars, shape_decls_counter, schema_json, pc, pos, call, result>>

\* the validation of nodes against conjunctions
NextCheck ==
    \/ \E se \in AndShapes, node \in Nodes : CheckStart(se, node)
    \/ CheckBranch
    \/ CheckEnd

SpecCheck == Init /\ [][NextCheck]_vars

\* bodies with a reference to a named triple expression: alone, in a group,
\* in a nested group, under a group or after a sibling that does not lower,
\* inside a conjunction, a negation and a disjunction
TcQ == STripleConstraint("x:q", None, None, None)
TeRef == STripleExprRef("x:t")
TeRefExprs ==
    { SShape(None, None, Some(TeRef)),
      SShape(None, None, Some(SEachOf(<<TcP(None, None), TeRef>>, None, None))),
      SShape(None, None, Some(SOneOf(<<TeRef, TcP(None, None)>>, None, None))),
      SShape(Some(TRUE), Some(<<"x:q">>),
             Some(SOneOf(<<TcP(None, None),
                           SEachOf(<<TcQ, TeRef>>, Some(0), Some(-1))>>, None, None))),
      SShape(None, None, Some(SEachOf(<<TeRef>>, Some(-1), None))),
      SShape(None, None, Some(SEachOf(<<TcP(Some(-1), None), TeRef>>, None, None))),
      SShapeAnd(<<NcAny, SShape(None, None, Some(TeRef))>>),
      SShapeNot(SShape(None, None, Some(TeRef))),
      SShapeOr(<<SShapeExternal, SShape(None, None, Some(TeRef))>>) }

\* bodies of one triple constraint, of an EachOf and of a OneOf of two, for
\* every declared or absent min and max
CardExprs ==
    {SShape(None, None, Some(TcP(min, max))) : min \in OptCards, max \in OptCards}
    \cup {SShape(None, None, Some(SEachOf(<<TcP(None, None), TcQ>>, min, max))) :
             min \in OptCards, max \in OptCards}
    \cup {SShape(None, None, Some(SOneOf(<<TcQ, TcP(Some(0), Some(-1))>>, min, max))) :
             min \in OptCards, max \in OptCards}

\* bodies with a construct the compiler does not support: ShapeExternal, a
\* reference to a blank node, a shape expression other than a node
\* constraint or a reference as value expression, a node kind or a facet in
\* a node constraint, stems with exclusions and language stems in a value set
NcFacet == SNodeConstraint(None, None, Some(<<"length">>), None)
NcValues(variant) == SNodeConstraint(None, None, None, Some(<<SValue(variant, "x:v")>>))
TcVE(ve) == SShape(None, None, Some(STripleConstraint("x:p", Some(ve), None, None)))
StemVariants == {"IriStemRange", "LiteralStemRange", "LanguageStem", "LanguageStemRange"}
UnsupportedNcs ==
    {NcNodeKind, NcFacet} \cup {NcValues(variant) : variant \in StemVariants}
UnsupportedExprs ==
    {SShapeExternal, SRefBNode("b1"), TcVE(SRefBNode("b1"))}
    \cup {TcVE(ve) : ve \in {SShape(None, None, None), SShapeAnd(<<NcAny, NcAny>>),
                              SShapeOr(<<NcAny, NcAny>>), SShapeNot(NcAny),
                              SShapeExternal}}
    \cup UnsupportedNcs
    \cup {TcVE(nc) : nc \in UnsupportedNcs}

\* the schemas that are lowered: one declaration, alone or after one that
\* lowers
LowerExprs == TeRefExprs \cup CardExprs \cup UnsupportedExprs
LowerSchemas ==
    {Schema(Some(<<ShapeDecl("x:a", se)>>)) : se \in LowerExprs}
    \cup {Schema(Some(<<ShapeDecl("x:b", NcAny), ShapeDecl("x:a", se)>>)) : se \in LowerExprs}

\* the lowering of shape expressions: from_schema_json on a new CompiledSchema
NextLower ==
    \/ \E schema \in LowerSchemas :
          shape_label_counter = ShapeLabelIdxDefault /\ FromSchemaJson(schema)
    \/ CollectShapeLabels
    \/ CollectShapeExprs

SpecLower == Init /\ [][NextLower]_vars

\* the parts of a node constraint, each absent or declared, and the value
\* expressions of a triple constraint
NcKinds == {None} \cup {Some(nk) : nk \in NodeKinds}
NcDatatypes == {None} \cup {Some(dt) : dt \in Datatypes}
NcFacets == {None, Some(<<"length">>)}
NcValueSets ==
    {None,
     Some(<<SValue("ObjectValue", [ov |-> "IriRef", value |-> "x:v"])>>),
     Some(<<SValue("Language", "en"), SValue("LiteralStem", "ab")>>)}
ValueExprs == {None, Some(NcAny), Some(NcDatatype), Some(SRefIri("x:a"))}

\* a call of cnv_node_constraint, of value_expr2match_cond
CnvNodeConstraint(nk, dt, xs_facet, values) ==
    /\ pc = "idle"
    /\ Returns([fn |-> "cnv_node_constraint", nk |-> nk, dt |-> dt,
                xs_facet |-> xs_facet, values |-> values],
               cnv_node_constraint(nk, dt, xs_facet, values))
    /\ UNCHANGED schema_vars
ValueExpr2MatchCond(ve) ==
    /\ pc = "idle"
    /\ Returns([fn |-> "value_expr2match_cond", ve |-> ve],
               value_expr2match_cond(ve, MatchMap))
    /\ UNCHANGED schema_vars

\* the composition of match conditions
NextNc ==
    \/ \E nk \in NcKinds, dt \in NcDatatypes, xs_facet \in NcFacets, values \in NcValueSets :
          CnvNodeConstraint(nk, dt, xs_facet, values)
    \/ \E ve \in ValueExprs : ValueExpr2MatchCond(ve)

SpecNc == Init /\ [][NextNc]_vars

\* inputs of the parsers: strings of at most MaxInput characters around a
\* comment and around a prefix name, and prefix declarations put together
\* from a keyword, whitespace, a name, whitespace, an IRI and what follows
CommentInputs == SeqsUpTo({"#", "a", "LF", "CR", "U+00E9"}, MaxInput)
PnameInputs == SeqsUpTo({"a", "1", ".", ":", "U+00E9"}, MaxInput)
PrefixDeclInputs ==
    {kw \o w1 \o alias \o w2 \o iri \o rest :
        kw \in {<<"p", "r", "e", "f", "i", "x">>, <<"P", "R", "E", "F", "I", "X">>,
                <<"P", "r", "E", "f", "I", "x">>, <<"p", "r", "e", "f", "i">>},
        w1 \in {<<>>, <<"SP">>, <<"#", "a", "LF">>},
        alias \in {<<"a", ".", "b", ".", "c", ":">>, <<":">>, <<"a", "1", ":">>,
                   <<"a", ".", ".", "b", ":">>, <<"a", ".", ":">>, <<"a">>},
        w2 \in {<<>>, <<"SP">>, <<"LF", "#", "CR", "LF">>},
        iri \in {<<"<", "u", "r", "n", ">">>, <<"<", ">">>, <<"<", "u", "SP", ">">>, <<"u">>},
        rest \in {<<>>, <<"SP", "a">>}}

\* a parser is applied to an input
Comment(i) ==
    /\ pc = "idle"
    /\ call = NoCall
    /\ Returns([fn |-> "comment", i |-> i], comment(i))
    /\ UNCHANGED schema_vars
PnameNs(i) ==
    /\ pc = "idle"
    /\ call = NoCall
    /\ Returns([fn |-> "pname_ns", i |-> i], pname_ns(i))
    /\ UNCHANGED schema_vars
PrefixDecl(i) ==
    /\ pc = "idle"
    /\ call = NoCall
    /\ Returns([fn |-> "prefix_decl", i |-> i], prefix_decl(i))
    /\ UNCHANGED schema_vars

\* the parsers of the compact syntax
NextGrammar ==
    \/ \E i \in CommentInputs : Comment(i)
    \/ \E i \in PnameInputs : PnameNs(i)
    \/ \E i \in PrefixDeclInputs : PrefixDecl(i)

SpecGrammar == Init /\ [][NextGrammar]_vars

\* a caller's add_shape, its arguments kept in call
AddShapeCall(shape_label, se) ==
    /\ pc = "idle"
    /\ add_shape(shape_label, se)
    /\ Returns([fn |-> "add_shape", shape_label |-> shape_label, se |-> se], OkUnit)
    /\ UNCHANGED prefixmap

\* the writers of a CompiledSchema: add_shape, replace_shape, from_schema_json
NextWriters ==
    \/ \E l \in ApiLabels, se \in ApiExprs :
          shape_label_counter < MaxIdx /\ AddShapeCall(l, se)
    \/ \E idx \in 0..MaxIdx, se \in ApiExprs : ReplaceShapeCall(idx, se)
    \/ \E schema \in FatalSchemas(MaxIdx - shape_label_counter) : FromSchemaJson(schema)
    \/ CollectShapeLabels
    \/ CollectShapeExprs

SpecWriters == Init /\ [][NextWriters]_vars

-----------------------------------------------------------------------------
(* ValueSetValue and its JSON (value_set_value.rs)                         *)

\* Lang { lang: String }, Lang::new and Lang::value
Lang_new(s) == [lang |-> s]
Lang_value(l) == l.lang

\* IriRef::Iri of an IRI string, its Display and its FromStr / TryFrom<&str>
IriRef_Iri(s) == [iriref |-> "Iri", iri |-> s]
IriRef_to_string(r) == r.iri
IriRef_from_str(s) ==
    LET iri == IriS_new(s) IN
    IF iri.tag # "Ok" THEN iri ELSE Ok(IriRef_Iri(iri.val))

\* the variants of ObjectValue and of ValueSetValue
OvIriRef(iri) == [ov |-> "IriRef", iri |-> iri]
OvBooleanLiteral(value) == [ov |-> "BooleanLiteral", value |-> value]
OvNumericLiteral(num) == [ov |-> "NumericLiteral", num |-> num]
OvObjectLiteral(value, language, type_) ==
    [ov |-> "ObjectLiteral", value |-> value, language |-> language, type_ |-> type_]
NumInteger(n) == [num |-> "Integer", n |-> n]
NumDouble(n) == [num |-> "Double", n |-> n]
NumDecimal(n) == [num |-> "Decimal", n |-> n]
VsvObjectValue(ov) == [vsv |-> "ObjectValue", ov |-> ov]
VsvLanguage(language_tag) == [vsv |-> "Language", language_tag |-> language_tag]
VsvLiteralStem(stem) == [vsv |-> "LiteralStem", stem |-> stem]
VsvLanguageStem(stem) == [vsv |-> "LanguageStem", stem |-> stem]
VsvIriStem(stem) == [vsv |-> "IriStem", stem |-> stem]

BOOLEAN_STR == "http://www.w3.org/2001/XMLSchema#boolean"
INTEGER_STR == "http://www.w3.org/2001/XMLSchema#integer"
DOUBLE_STR == "http://www.w3.org/2001/XMLSchema#double"
DECIMAL_STR == "http://www.w3.org/2001/XMLSchema#decimal"

\* get_type_str
get_type_str(n) ==
    CASE n.num = "Integer" -> INTEGER_STR
      [] n.num = "Double" -> DOUBLE_STR
      [] n.num = "Decimal" -> DECIMAL_STR

\* the decimal digits of an integer: num.to_string() of NumericLiteral::Integer
Digits == <<"0", "1", "2", "3", "4", "5", "6", "7", "8", "9">>
RECURSIVE nat_to_string(_)
nat_to_string(n) ==
    IF n < 10 THEN Digits[n + 1]
    ELSE nat_to_string(n \div 10) \o Digits[(n % 10) + 1]
num_to_string(num) ==
    IF num.n < 0 THEN "-" \o nat_to_string(-num.n) ELSE nat_to_string(num.n)

\* isize::from_str: an optional sign and at least one digit, digits only
digit_value(c) ==
    IF \E d \in DOMAIN Digits : Digits[d] = c
    THEN Some((CHOOSE d \in DOMAIN Digits : Digits[d] = c) - 1)
    ELSE None
RECURSIVE parse_digits(_, _)
parse_digits(s, acc) ==
    IF s = "" THEN Ok(acc)
    ELSE LET d == digit_value(SubSeq(s, 1, 1)) IN
         IF d = None THEN Err([err |-> "ParseIntError", kind |-> "InvalidDigit"])
         ELSE parse_digits(Tail(s), 10 * acc + d[1])
isize_from_str(s) ==
    IF s = "" THEN Err([err |-> "ParseIntError", kind |-> "Empty"])
    ELSE LET sign == SubSeq(s, 1, 1)
             digits == IF sign \in {"-", "+"} THEN Tail(s) ELSE s IN
         IF digits = "" THEN Err([err |-> "ParseIntError", kind |-> "InvalidDigit"])
         ELSE LET n == parse_digits(digits, 0) IN
              IF n.tag # "Ok" THEN n
              ELSE IF sign = "-" THEN Ok(-n.val) ELSE n

\* what a serializer writes: a string, or a map as the sequence of its entries
JStr(s) == [json |-> "str", s |-> s]
JMap(entries) == [json |-> "map", entries |-> entries]

\* impl Serialize for ValueSetValue
serialize(v) ==
    CASE v.vsv = "ObjectValue" ->
           (CASE v.ov.ov = "BooleanLiteral" ->
                   JMap(<< <<"type", BOOLEAN_STR>>,
                           <<"value", IF v.ov.value THEN "true" ELSE "false">> >>)
              [] v.ov.ov = "NumericLiteral" ->
                   JMap(<< <<"type", get_type_str(v.ov.num)>>,
                           <<"value", num_to_string(v.ov.num)>> >>)
              [] v.ov.ov = "IriRef" -> JStr(IriRef_to_string(v.ov.iri))
              [] v.ov.ov = "ObjectLiteral" ->
                   JMap((IF v.ov.type_ # None
                         THEN << <<"type", IriRef_to_string(v.ov.type_[1])>> >>
                         ELSE <<>>)
                        \o (IF v.ov.language # None
                            THEN << <<"language", Lang_value(v.ov.language[1])>> >>
                            ELSE <<>>)
                        \o << <<"value", v.ov.value>> >>))
      [] v.vsv = "Language" ->
           JMap(<< <<"type", "Language">>,
                   <<"languageTag", Lang_value(v.language_tag)>> >>)
      [] v.vsv = "IriStem" ->
           JMap(<< <<"type", "IriStem">>, <<"stem", IriRef_to_string(v.stem)>> >>)
      [] v.vsv = "LanguageStem" ->
           JMap(<< <<"type", "LanguageStem">>, <<"stem", Lang_value(v.stem)>> >>)
      [] v.vsv = "LiteralStem" ->
           JMap(<< <<"type", "LiteralStem">>, <<"stem", v.stem>> >>)

\* ValueSetValueType::parse
ValueSetValueType_parse(s) ==
    CASE s = "IriStem" -> Ok([type |-> "IriStem"])
      [] s = "LanguageStem" -> Ok([type |-> "LanguageStem"])
      [] s = "LiteralStem" -> Ok([type |-> "LiteralStem"])
      [] s = "Language" -> Ok([type |-> "Language"])
      [] s = "IriStemRange" -> Ok([type |-> "IriStemRange"])
      [] s = "LanguageStemRange" -> Ok([type |-> "LanguageStemRange"])
      [] s = "LiteralStemRange" -> Ok([type |-> "LiteralStemRange"])
      [] s = BOOLEAN_STR -> Ok([type |-> "Boolean"])
      [] s = DECIMAL_STR -> Ok([type |-> "Decimal"])
      [] s = DOUBLE_STR -> Ok([type |-> "Double"])
      [] s = INTEGER_STR -> Ok([type |-> "Integer"])
      [] OTHER -> LET iri == IriRef_from_str(s) IN
                  IF iri.tag # "Ok" THEN iri
                  ELSE Ok([type |-> "Other", iri |-> iri.val])

\* serde's errors of a visitor
SerdeError(kind, what) == Err([err |-> "de::Error", kind |-> kind, what |-> what])

\* impl FromStr for ValueSetValue
ValueSetValue_from_str(s) ==
    LET r == IriRef_from_str(s) IN
    IF r.tag # "Ok" THEN r
    ELSE Ok(VsvObjectValue(OvIriRef(r.val)))

\* ValueSetValueVisitor::visit_str
visit_str(s) ==
    LET v == ValueSetValue_from_str(s) IN
    IF v.tag # "Ok" THEN SerdeError("custom", s) ELSE v

\* the fields of visit_map before the first key
NoFields ==
    [type_ |-> None, stem |-> None, value |-> None,
     language_tag |-> None, language |-> None, exclusions |-> None]

\* Field's visit_str: the field of a key
FIELDS == {"type", "value", "stem", "language", "languageTag", "exclusions"}

\* ValueSetValueVisitor::visit_map, its loop over the keys from the i-th on;
\* every value of an entry is a string: the Stem of a string is StemVisitor's
\* visit_str, which is todo!(), and a string is no list of exclusions
RECURSIVE visit_keys(_, _, _)
visit_keys(entries, i, f) ==
    IF i > Len(entries) THEN Ok(f)
    ELSE LET key == entries[i][1]
             val == entries[i][2] IN
         CASE key \notin FIELDS -> SerdeError("unknown_field", key)
           [] key = "type" ->
                IF f.type_ # None THEN SerdeError("duplicate_field", "type")
                ELSE LET parsed_type_ == ValueSetValueType_parse(val) IN
                     IF parsed_type_.tag # "Ok" THEN SerdeError("custom", val)
                     ELSE visit_keys(entries, i + 1,
                                     [f EXCEPT !.type_ = Some(parsed_type_.val)])
           [] key = "value" ->
                IF f.value # None THEN SerdeError("duplicate_field", "value")
                ELSE visit_keys(entries, i + 1, [f EXCEPT !.value = Some(val)])
           [] key = "language" ->
                IF f.language # None THEN SerdeError("duplicate_field", "language")
                ELSE visit_keys(entries, i + 1, [f EXCEPT !.language = Some(val)])
           [] key = "stem" ->
                IF f.stem # None THEN SerdeError("duplicate_field", "stem")
                ELSE Panic("not yet implemented")
           [] key = "exclusions" ->
                IF f.exclusions # None THEN SerdeError("duplicate_field", "exclusions")
                ELSE SerdeError("invalid_type", "exclusions")
           [] key = "languageTag" ->
                IF f.language_tag # None
                THEN SerdeError("duplicate_field", "languageTag")
                ELSE visit_keys(entries, i + 1, [f EXCEPT !.language_tag = Some(val)])

\* ValueSetValueVisitor::visit_map, its match on the type once every key is read
visit_type(f) ==
    IF f.type_ = None
    THEN IF f.value = None THEN SerdeError("missing_field", "value")
         ELSE Ok(VsvObjectValue(OvObjectLiteral(f.value[1],
                    IF f.language # None THEN Some(Lang_new(f.language[1])) ELSE None,
                    None)))
    ELSE LET t == f.type_[1] IN
         CASE t.type \in {"LiteralStemRange", "LiteralStem", "LanguageStem", "IriStem"} ->
                \* no stem is ever read: reading one is todo!()
                SerdeError("missing_field", "stem")
           [] t.type \in {"LanguageStemRange", "IriStemRange"} ->
                Panic("not yet implemented")
           [] t.type = "Language" ->
                IF f.language_tag = None THEN SerdeError("missing_field", "languageTag")
                ELSE Ok(VsvLanguage(Lang_new(f.language_tag[1])))
           [] t.type = "Boolean" ->
                IF f.value = None THEN SerdeError("missing_field", "value")
                ELSE IF f.value[1] = "false" THEN Ok(VsvObjectValue(OvBooleanLiteral(FALSE)))
                ELSE IF f.value[1] = "true" THEN Ok(VsvObjectValue(OvBooleanLiteral(TRUE)))
                ELSE SerdeError("invalid_value", f.value[1])
           [] t.type \in {"Double", "Decimal", "Integer"} ->
                \* f64::from_str and Decimal::from_str on the lexical forms of integers
                IF f.value = None THEN SerdeError("missing_field", "value")
                ELSE LET n == isize_from_str(f.value[1]) IN
                     IF n.tag # "Ok" THEN SerdeError("custom", f.value[1])
                     ELSE Ok(VsvObjectValue(OvNumericLiteral([num |-> t.type, n |-> n.val])))
           [] t.type = "Other" ->
                IF f.value = None THEN SerdeError("missing_field", "value")
                ELSE Ok(VsvObjectValue(OvObjectLiteral(f.value[1],
                           IF f.language_tag # None
                           THEN Some(Lang_new(f.language_tag[1])) ELSE None,
                           Some(t.iri))))

\* ValueSetValueVisitor::visit_map
visit_map(entries) ==
    LET f == visit_keys(entries, 1, NoFields) IN
    IF f.tag # "Ok" THEN f ELSE visit_type(f.val)

\* impl Deserialize for ValueSetValue: deserialize_any(ValueSetValueVisitor)
deserialize(j) ==
    IF j.json = "str" THEN visit_str(j.s) ELSE visit_map(j.entries)

\* the values of the JSON round trip
SerdeIris == {"http://example.org/a", "http://example.org/b"}
SerdeDatatypes == {"http://example.org/dt", "http://www.w3.org/2001/XMLSchema#string",
                   INTEGER_STR}
SerdeLangs == {"en", "fr"}
SerdeLexicals == {"abc", "7"}
Opt(S) == {None} \cup {Some(x) : x \in S}
ObjectValues ==
    {OvIriRef(IriRef_Iri(i)) : i \in SerdeIris}
    \cup {OvBooleanLiteral(b) : b \in BOOLEAN}
    \cup {OvNumericLiteral(NumInteger(n)) : n \in -MaxNum..MaxNum}
    \cup {OvObjectLiteral(s, l, t) :
            s \in SerdeLexicals,
            l \in Opt({Lang_new(x) : x \in SerdeLangs}),
            t \in Opt({IriRef_Iri(x) : x \in SerdeDatatypes})}
RoundTripValues ==
    {VsvObjectValue(ov) : ov \in ObjectValues}
    \cup {VsvLanguage(Lang_new(l)) : l \in SerdeLangs}
StemValues ==
    {VsvLiteralStem(s) : s \in SerdeLexicals}
    \cup {VsvLanguageStem(Lang_new(l)) : l \in SerdeLangs}
    \cup {VsvIriStem(IriRef_Iri(i)) : i \in SerdeIris}
SerdeValues == RoundTripValues \cup StemValues

\* JSON a serializer did not write
ForeignJson ==
    {JMap(<< <<"type", t>>, <<"languageTag", l>>, <<"value", s>> >>) :
        t \in SerdeDatatypes, l \in SerdeLangs, s \in SerdeLexicals}
    \cup {JMap(<< <<"type", INTEGER_STR>>, <<"value", s>> >>) : s \in {"+7", "-", "", "1x"}}
    \cup {JMap(<< <<"type", BOOLEAN_STR>>, <<"value", "yes">> >>),
          JMap(<< <<"type", "Language">> >>),
          JMap(<< <<"type", "IriStemRange">>, <<"exclusions", "x">> >>),
          JMap(<< <<"type", "IriStemRange">> >>),
          JMap(<< <<"value", "abc">>, <<"value", "abc">> >>),
          JMap(<< <<"datatype", "abc">> >>),
          JMap(<<>>)}

\* a value is serialized
Serialize(v) ==
    /\ pc = "idle"
    /\ call = NoCall
    /\ Returns([fn |-> "serialize", v |-> v], Ok(serialize(v)))
    /\ UNCHANGED schema_vars

\* JSON is deserialized
Deserialize(j) ==
    /\ pc = "idle"
    /\ call = NoCall
    /\ Returns([fn |-> "deserialize", j |-> j], deserialize(j))
    /\ UNCHANGED schema_vars

\* a value is serialized and what was written is deserialized
RoundTrip(v) ==
    /\ pc = "idle"
    /\ call = NoCall
    /\ Returns([fn |-> "round_trip", v |-> v], deserialize(serialize(v)))
    /\ UNCHANGED schema_vars

\* the JSON of value set values, written and read
NextSerde ==
    \/ \E v \in SerdeValues : Serialize(v)
    \/ \E j \in ForeignJson : Deserialize(j)
    \/ \E v \in SerdeValues : RoundTrip(v)

SpecSerde == Init /\ [][NextSerde]_vars

-----------------------------------------------------------------------------
(* what the properties speak of                                            *)

\* from_schema_json has returned; it has returned Ok
Returned == schema_json # None /\ result.tag # "None"
CompiledOk == schema_json # None /\ result.tag = "Ok"

\* the declarations of the schema of the last from_schema_json, the index
\* pass 1 allocated for the k-th of them, the last declaration of an id
Decls == DeclsOf(schema_json[1])
DeclIds == {Decls[k].id : k \in DOMAIN Decls}
FirstIdx == shape_label_counter - shape_decls_counter
IdxOfDecl(k) == FirstIdx + k - 1
DeclIdxs == FirstIdx .. shape_label_counter - 1
LastDecl(id) ==
    CHOOSE k \in DOMAIN Decls :
        Decls[k].id = id /\ \A j \in DOMAIN Decls : j > k => Decls[j].id # id

\* the indices of the Refs of a compiled shape expression and of the
\* reference conditions of its triple constraints
RECURSIVE CondRefs(_)
CondRefs(cond) ==
    CASE cond.type = "Single" ->
            IF cond.check.cond = "ref" THEN {cond.check.idx} ELSE {}
      [] cond.type = "And" -> UNION {CondRefs(cond.conds[i]) : i \in DOMAIN cond.conds}
      [] OTHER -> {}
RECURSIVE RefsOf(_)
RefsOf(se) ==
    CASE se.type = "Ref" -> {se.idx}
      [] se.type \in {"ShapeOr", "ShapeAnd"} ->
            UNION {RefsOf(se.exprs[i]) : i \in DOMAIN se.exprs}
      [] se.type = "ShapeNot" -> RefsOf(se.expr)
      [] se.type = "Shape" ->
            UNION {CondRefs(se.rbe_table.components[i][2]) :
                      i \in DOMAIN se.rbe_table.components}
      [] se.type = "NodeConstraint" -> CondRefs(se.cond)
      [] OTHER -> {}

\* the IRIs a body of the schema refers to, as a shape expression or as the
\* value expression of a triple constraint
RECURSIVE SRefsOf(_)
RECURSIVE TRefsOf(_)
SRefsOf(se) ==
    CASE se.type = "Ref" -> IF se.ref = "IriRef" THEN {se.value} ELSE {}
      [] se.type \in {"ShapeOr", "ShapeAnd"} ->
            UNION {SRefsOf(se.shape_exprs[i]) : i \in DOMAIN se.shape_exprs}
      [] se.type = "ShapeNot" -> SRefsOf(se.shape_expr)
      [] se.type = "Shape" ->
            IF se.expression = None THEN {} ELSE TRefsOf(se.expression[1])
      [] OTHER -> {}
TRefsOf(te) ==
    CASE te.type \in {"EachOf", "OneOf"} ->
            UNION {TRefsOf(te.expressions[i]) : i \in DOMAIN te.expressions}
      [] te.type = "TripleConstraint" ->
            IF te.value_expr # None /\ te.value_expr[1].type = "Ref"
            THEN SRefsOf(te.value_expr[1]) ELSE {}
      [] OTHER -> {}

\* the constructs at which lowering stops, in the order lowering meets them,
\* when the labels of known are the registered ones: a Ref to an IRI label
\* that is not known, or any other construct that does not lower
OtherStop == <<[stop |-> "other"]>>
RefStop(label) == <<[stop |-> "ref", label |-> label]>>
StopsRef(sref, known) ==
    IF sref.ref # "IriRef" THEN OtherStop
    ELSE IF Iri(sref.value) \in known THEN <<>> ELSE RefStop(Iri(sref.value))
StopsVE(ve, known) ==
    IF ve = None THEN <<>>
    ELSE IF ve[1].type = "Ref" THEN StopsRef(ve[1], known)
    ELSE IF value_expr2match_cond(ve, EmptyMap).tag # "Ok" THEN OtherStop ELSE <<>>
RECURSIVE StopsTE(_, _)
RECURSIVE StopsTEs(_, _, _)
StopsTEs(tes, i, known) ==
    IF i > Len(tes) THEN <<>> ELSE StopsTE(tes[i], known) \o StopsTEs(tes, i + 1, known)
StopsTE(te, known) ==
    CASE te.type \in {"EachOf", "OneOf"} ->
            StopsTEs(te.expressions, 1, known)
            \o (IF cnv_min_max(te.min, te.max).tag # "Ok" THEN OtherStop ELSE <<>>)
      [] te.type = "TripleConstraint" ->
            (IF cnv_min_max(te.min, te.max).tag # "Ok" THEN OtherStop ELSE <<>>)
            \o (IF cnv_predicate(te.predicate).tag # "Ok" THEN OtherStop ELSE <<>>)
            \o StopsVE(te.value_expr, known)
      [] te.type = "TripleExprRef" -> <<[stop |-> "teref", label |-> te.label]>>
RECURSIVE StopsSE(_, _)
RECURSIVE StopsSEs(_, _, _)
StopsSEs(ses, i, known) ==
    IF i > Len(ses) THEN <<>> ELSE StopsSE(ses[i], known) \o StopsSEs(ses, i + 1, known)
StopsSE(se, known) ==
    CASE se.type = "Ref" -> StopsRef(se, known)
      [] se.type \in {"ShapeOr", "ShapeAnd"} -> StopsSEs(se.shape_exprs, 1, known)
      [] se.type = "ShapeNot" -> StopsSE(se.shape_expr, known)
      [] se.type = "Shape" ->
            (IF cnv_extra(se.extra).tag # "Ok" THEN OtherStop ELSE <<>>)
            \o (IF se.expression = None THEN <<>> ELSE StopsTE(se.expression[1], known))
      [] se.type = "NodeConstraint" ->
            IF compile_shape_expr(se, 0, EmptyMap).tag # "Ok" THEN OtherStop ELSE <<>>
      [] OTHER -> OtherStop
\* the stops of the bodies of the schema, in declaration order
SchemaStops(known) ==
    StopsSEs([k \in DOMAIN Decls |-> Decls[k].shape_expr], 1, known)

-----------------------------------------------------------------------------
(* properties                                                              *)

C2_RefsResolve ==
    (schema_json # None /\ (pc = "collect_shape_exprs" \/ result.tag = "Ok")) =>
        /\ \A k \in DOMAIN Decls :
              LET label == Iri(Decls[k].id) IN
              /\ label \in DOMAIN shape_labels_map
              /\ shape_labels_map[label] = IdxOfDecl(LastDecl(Decls[k].id))
              /\ \A idx \in DOMAIN shapes :
                    compile_shape_expr(SRefIri(Decls[k].id), idx, shape_labels_map)
                        = Ok(Ref(shape_labels_map[label]))
        /\ result.tag = "Ok" =>
              \A k \in DOMAIN Decls :
                  k = LastDecl(Decls[k].id) =>
                      \A v \in SRefsOf(Decls[k].shape_expr) \cap DeclIds :
                          IdxOfDecl(LastDecl(v)) \in RefsOf(shapes[IdxOfDecl(k)][2])

\* a compiled schema of two shapes that refer to each other, the first one to
\* a label declared after it
C2_Witness ==
    /\ CompiledOk
    /\ \E k1 \in DOMAIN Decls, k2 \in DOMAIN Decls :
          /\ k1 < k2
          /\ Decls[k1].id # Decls[k2].id
          /\ Decls[k2].id \in SRefsOf(Decls[k1].shape_expr)
          /\ Decls[k1].id \in SRefsOf(Decls[k2].shape_expr)
          /\ IdxOfDecl(k2) \in RefsOf(shapes[IdxOfDecl(k1)][2])
          /\ IdxOfDecl(k1) \in RefsOf(shapes[IdxOfDecl(k2)][2])

\* C3: after compile returns Ok no entry allocated for a declaration of the
\* schema, repeated ids included, still holds the Empty placeholder
C3_NoPlaceholder ==
    CompiledOk => \A i \in DeclIdxs : shapes[i][2] # Empty

\* C4: after a successful compile find_label of a declared label returns the
\* index allocated for the (last) declaration of the label and the lowered,
\* non-placeholder expression of that declaration
C4_FindLabel ==
    CompiledOk =>
        \A k \in DOMAIN Decls :
            LET last == LastDecl(Decls[k].id)
                found == find_label(shape_labels_map, shapes, Iri(Decls[k].id))
            IN  /\ found # None
                /\ found[1][1] = IdxOfDecl(last)
                /\ found[1][2] # Empty
                /\ Ok(found[1][2]) =
                      compile_shape_decl(Decls[last], IdxOfDecl(last), shape_labels_map)

\* a compiled schema of two labels, find_label answering a Shape for one
C4_Witness ==
    /\ CompiledOk
    /\ \E k1 \in DOMAIN Decls, k2 \in DOMAIN Decls :
          /\ Decls[k1].id # Decls[k2].id
          /\ find_label(shape_labels_map, shapes, Iri(Decls[k1].id)) # None
          /\ find_label(shape_labels_map, shapes, Iri(Decls[k1].id))[1][2].type = "Shape"
          /\ find_label(shape_labels_map, shapes, Iri(Decls[k2].id)) # None

\* C5: in every state reachable by add_shape, replace_shape and
\* from_schema_json no two table indices carry the same label, and the index
\* find_shape_label_idx returns for a label never changes once assigned
C5_UniqueAndStable ==
    /\ [](\A i \in DOMAIN shapes, j \in DOMAIN shapes :
              shapes[i][1] = shapes[j][1] => i = j)
    /\ [][\A l \in DOMAIN shape_labels_map :
              find_shape_label_idx(shape_labels_map', l)
                  = find_shape_label_idx(shape_labels_map, l)]_vars

\* C6: compiling n declarations into an empty CompiledSchema allocates the
\* indices 0, 1, .. in declaration order, the k-th declaration's label stored
\* at the k-th of them, and once pass 1 is over, whatever pass 2 lowers and
\* however compile returns, the table has exactly n entries
C6_DenseAllocation ==
    (schema_json # None /\ FirstIdx = 0) =>
        /\ DOMAIN shapes = 0 .. shape_decls_counter - 1
        /\ \A k \in 1 .. shape_decls_counter : shapes[k - 1][1] = Iri(Decls[k].id)
        /\ pc = "collect_shape_labels" => shape_decls_counter = pos - 1
        /\ pc # "collect_shape_labels" =>
              /\ shape_label_counter = Len(Decls)
              /\ Cardinality(DOMAIN shapes) = Len(Decls)

\* two declarations compiled into an empty CompiledSchema, a composite and a
\* Shape lowered
C6_Witness ==
    /\ CompiledOk
    /\ FirstIdx = 0
    /\ Len(Decls) = 2
    /\ shapes[0][2].type \in {"ShapeAnd", "ShapeOr"}
    /\ shapes[1][2].type = "Shape"

\* the first construct at which lowering stops is a Ref to an IRI label
\* outside known: then from_schema_json has returned label-not-found for it
StopsAtRefOutside(known) ==
    LET stops == SchemaStops(known) IN
    (stops # <<>> /\ stops[1].stop = "ref") =>
        result = Err(ShapeLabelNotFound(stops[1].label))

\* C7, as stated: a Ref (shape expression or value expression of a triple
\* constraint) whose IRI label the schema does not declare makes compile
\* return the label-not-found error as a value
C7_UndeclaredRef ==
    Returned => StopsAtRefOutside({Iri(id) : id \in DeclIds})

\* C7, amended: a Ref that lowering reaches and whose IRI label is not
\* registered in the CompiledSchema (neither declared by the schema nor
\* registered before the call) makes compile return the label-not-found
\* error for that label as a value, never Ok and never a panic
C7_UnregisteredRef ==
    Returned => StopsAtRefOutside(DOMAIN shape_labels_map)

\* compile has returned label-not-found for a Ref that is the value
\* expression of a triple constraint and whose label is not registered
C7_Witness ==
    /\ Returned
    /\ result.tag = "Err"
    /\ result.err.err = "ShapeLabelNotFound"
    /\ SchemaStops(DOMAIN shape_labels_map) # <<>>
    /\ SchemaStops(DOMAIN shape_labels_map)[1].stop = "ref"
    /\ Decls[pos].shape_expr.type = "Shape"

\* C8: when the lowering of a declared body yields an error, compile returns
\* the error of the first such declaration and the entry allocated for every
\* declaration after it still holds the placeholder
C8_FatalError ==
    Returned =>
        LET failing == {k \in DOMAIN Decls :
                           compile_shape_decl(Decls[k], IdxOfDecl(k), shape_labels_map).tag
                               = "Err"}
        IN  failing # {} =>
                LET first == CHOOSE k \in failing : \A j \in failing : k <= j IN
                /\ result =
                      compile_shape_decl(Decls[first], IdxOfDecl(first), shape_labels_map)
                /\ \A j \in DOMAIN Decls : j > first => shapes[IdxOfDecl(j)][2] = Empty

\* C9: cnv_min rejects a declared min < 0 with MinLessZero, cnv_max rejects a
\* declared max < -1 with MaxIncorrect and turns -1 into Unbounded, any other
\* declared value is kept, an absent min or max is 1; cnv_min_max gives the
\* cardinality of the two, or the error of min, or else that of max
C9_Cardinality ==
    LET min_ok(min) == min = None \/ min[1] >= 0
        max_ok(max) == max = None \/ max[1] >= -1
        min_of(min) == IF min = None THEN 1 ELSE min[1]
        max_of(max) == IF max = None THEN IntMax(1)
                       ELSE IF max[1] = -1 THEN Unbounded ELSE IntMax(max[1])
    IN  /\ call.fn = "cnv_min" =>
              result = IF min_ok(call.min) THEN Ok(min_of(call.min))
                       ELSE Err(MinLessZero(call.min[1]))
        /\ call.fn = "cnv_max" =>
              result = IF max_ok(call.max) THEN Ok(max_of(call.max))
                       ELSE Err(MaxIncorrect(call.max[1]))
        /\ call.fn = "cnv_min_max" =>
              result = IF ~min_ok(call.min) THEN Err(MinLessZero(call.min[1]))
                       ELSE IF ~max_ok(call.max) THEN Err(MaxIncorrect(call.max[1]))
                       ELSE Ok(Cardinality_from(min_of(call.min), max_of(call.max)))

\* min 0 and max -1 have been converted to the cardinality 0 .. unbounded
C9_Witness ==
    /\ call.fn = "cnv_min_max"
    /\ call.min = Some(0)
    /\ call.max = Some(-1)
    /\ result = Ok(Cardinality_from(0, Unbounded))

\* C10: find_ref turns an absolute IRI into its label, resolves a prefixed
\* IRI through the prefix map and returns PrefixedNotFound wrapping the prefix
\* map's error when that fails, turns Start into the Start label; it returns
\* the registered index of the label, or LabelNotFound carrying the label
C10_FindRef ==
    call.fn = "find_ref" =>
        LET r == call.se_ref
            lookup(label) ==
                IF label \in DOMAIN shape_labels_map
                THEN Ok(shape_labels_map[label])
                ELSE Err(LabelNotFound(label))
        IN  CASE r.label = "Iri" -> result = lookup(Iri(r.iri))
              [] r.label = "Prefixed" ->
                    LET iri == resolve_prefix_local(prefixmap, r.prefix, r.local) IN
                    IF iri.tag = "Ok"
                    THEN result = lookup(Iri(iri.val))
                    ELSE result = Err(PrefixedNotFound(r.prefix, r.local, iri.err))
              [] r.label = "Start" -> result = lookup(Start)
              [] OTHER -> TRUE

\* find_ref has returned PrefixedNotFound while labels are registered and
\* another prefix is declared
C10_Witness ==
    /\ call.fn = "find_ref"
    /\ call.se_ref.label = "Prefixed"
    /\ result.tag = "Err"
    /\ result.err.err = "PrefixedNotFound"
    /\ prefixmap # PrefixMap_new
    /\ shape_labels_map # EmptyMap

-----------------------------------------------------------------------------

\* the step is a replace_shape on index i: a caller's, or the one of
\* collect_shape_exprs for the declaration it is at
ReplacesAt(i) ==
    \/ call'.fn = "replace_shape" /\ call'.idx = i
    \/ /\ pc = "collect_shape_exprs"
       /\ pos <= Len(Decls)
       /\ Iri(Decls[pos].id) \in DOMAIN shape_labels_map
       /\ shape_labels_map[Iri(Decls[pos].id)] = i

\* C11: a replace_shape(idx, se) on a registered index stores se at idx and
\* changes nothing else: the label at idx, every other entry, the label map,
\* the counter and the prefix map stay; and no step other than a
\* replace_shape changes the expression of an entry that is in the table.
C11_ReplaceFrame ==
    [][ /\ (call'.fn = "replace_shape" /\ call'.idx \in DOMAIN shapes) =>
             /\ shapes' = [i \in DOMAIN shapes |->
                              IF i = call'.idx
                              THEN <<shapes[i][1], call'.se>>
                              ELSE shapes[i]]
             /\ UNCHANGED <<shape_labels_map, shape_label_counter, prefixmap>>
        /\ \A i \in DOMAIN shapes :
             /\ i \in DOMAIN shapes'
             /\ shapes'[i][1] = shapes[i][1]
             /\ (shapes'[i][2] # shapes[i][2] => ReplacesAt(i)) ]_vars

\* a caller's replace_shape has stored a new expression in one of two entries
C11_Witness ==
    /\ call.fn = "replace_shape"
    /\ call.idx \in DOMAIN shapes
    /\ call.se # Empty
    /\ shapes[call.idx] = <<Iri("x:a"), call.se>>
    /\ \E j \in DOMAIN shapes : j # call.idx /\ shapes[j][2] = Empty

\* C12: a replace_shape on an index that is not in the table returns
\* without an error and leaves the table, the label map, the counter and
\* the prefix map as they were: no entry is created.
C12_AbsentIdx ==
    [][(call'.fn = "replace_shape" /\ call'.idx \notin DOMAIN shapes) =>
          /\ UNCHANGED schema_vars
          /\ result' = OkUnit]_vars

\* a caller's replace_shape on an absent index of a table that has entries
C12_Witness ==
    /\ call.fn = "replace_shape"
    /\ shapes # EmptyMap
    /\ call.idx \notin DOMAIN shapes
    /\ call.se # Empty


\* C13: once a compiled schema is shared by validations, however their
\* calls of the read functions interleave, the label map, the table, the
\* counter and the prefix map stay as compilation left them, and every
\* call has returned what it returns on that schema with no other call
\* around.
C13_ReadOnlySharing ==
    run.at = "validating" =>
        /\ schema_vars = run.schema
        /\ \A v \in Validations :
              run.of[v].st = "returned" =>
                  run.of[v].result =
                      read(run.of[v].call, run.schema[1], run.schema[2], run.schema[4])

\* one validation has a call under way while the other holds the index
\* find_ref returned
C13_Witness ==
    /\ run.at = "validating"
    /\ run.of["v1"].st = "called"
    /\ run.of["v1"].call.fn = "get_shape_expr"
    /\ run.of["v2"].st = "returned"
    /\ run.of["v2"].call.fn = "find_ref"
    /\ run.of["v2"].result = Ok(0)
    /\ Cardinality(DOMAIN shapes) = 2


\* C14: the condition built for a reference to index idx accepts every
\* node and returns exactly the one obligation (node, idx): it never
\* fails, whatever the node and whether or not idx is in the table.
C14_RefCondition ==
    (call.fn = "matches" /\ \E idx \in 0..MaxIdx : call.cond = mk_cond_ref(idx)) =>
        result = Ok({<<call.value, call.cond.check.idx>>})

\* the condition of a reference was applied to a typed literal
C14_Witness ==
    /\ call.fn = "matches"
    /\ call.cond = mk_cond_ref(MaxIdx)
    /\ call.value = DatatypeLiteral("1", "x:dt")
    /\ result = Ok({<<DatatypeLiteral("1", "x:dt"), MaxIdx>>})

\* the datatype check accepts node for datatype dt
DatatypeAccepts(node, dt) ==
    /\ node.object = "Literal"
    /\ \/ node.literal = "DatatypeLiteral" /\ node.datatype = dt
       \/ node.literal = "StringLiteral" /\ node.lang = None /\ dt = XSD_STRING
       \/ node.literal = "StringLiteral" /\ node.lang # None /\ dt = RDF_LANG_STRING

\* C15: the datatype check succeeds exactly for a typed literal of the
\* required datatype, an untyped string literal without language when
\* xsd:string is required, and a language-tagged literal when
\* rdf:langString is required; a typed literal of another datatype fails
\* with the mismatch error that carries expected, found and lexical form,
\* an IRI or a blank node fails with the not-a-literal error; the
\* condition of a datatype succeeds, with no obligation, in the same cases.
C15_DatatypeCheck ==
    /\ call.fn = "check_node_datatype" =>
          /\ result.tag = "Ok" <=> DatatypeAccepts(call.node, call.dt)
          /\ result.tag \in {"Ok", "Err"}
          /\ (call.node.object = "Literal" /\ call.node.literal = "DatatypeLiteral"
                  /\ call.node.datatype # call.dt) =>
                result = Err(DatatypeDontMatch(call.dt, call.node.datatype,
                                               call.node.lexical_form))
          /\ call.node.object \in {"Iri", "BlankNode"} =>
                result = Err(DatatypeNoLiteral(call.dt, call.node))
    /\ (call.fn = "matches" /\ \E dt \in Datatypes : call.cond = mk_cond_datatype(dt)) =>
          IF DatatypeAccepts(call.value, call.cond.check.datatype)
          THEN result = Ok({})
          ELSE result.tag = "Err"

\* a language-tagged literal has failed the check for xsd:string
C15_Witness ==
    /\ call.fn = "check_node_datatype"
    /\ call.node = StringLiteral("s", Some("en"))
    /\ call.dt = XSD_STRING
    /\ result.tag = "Err"

-----------------------------------------------------------------------------

\* the triple constraints of a triple expression, in the order of the
\* expression; the one at position c + 1 is the one component c stands for
RECURSIVE TCsOf(_), TCsOfAll(_, _)
TCsOf(te) ==
    IF te.type = "TripleConstraint" THEN <<te>> ELSE TCsOfAll(te.expressions, 1)
TCsOfAll(es, i) ==
    IF i > Len(es) THEN <<>> ELSE TCsOf(es[i]) \o TCsOfAll(es, i + 1)

\* min and max of a triple expression as the schema language defines them:
\* 1 when absent, max -1 for no upper limit
MinOf(te) == IF te.min = None THEN 1 ELSE te.min[1]
MaxOf(te) == IF te.max = None THEN 1 ELSE te.max[1]

\* the value expression of a triple constraint accepts the value; the
\* shape a reference names is not looked at
VEAccepts(ve, value) ==
    \/ ve = None
    \/ /\ ve # None
       /\ \/ ve[1].type = "Ref"
          \/ /\ ve[1].type = "NodeConstraint"
             /\ ve[1].datatype # None
             /\ DatatypeAccepts(value, ve[1].datatype[1])

\* cnt gives, for each triple constraint by position, the number of items
\* it takes; Within: none outside positions lo..hi; Only: those of lo..hi
Within(cnt, lo, hi) == \A c \in DOMAIN cnt : (c < lo \/ c > hi) => cnt[c] = 0
Only(cnt, lo, hi) == [c \in DOMAIN cnt |-> IF lo <= c /\ c <= hi THEN cnt[c] ELSE 0]
NonEmptyParts(cnt) ==
    {part \in [DOMAIN cnt -> 0..MaxBag] :
        /\ \A c \in DOMAIN cnt : part[c] <= cnt[c]
        /\ \E c \in DOMAIN cnt : part[c] > 0}

\* the meaning of a triple expression whose first triple constraint is at
\* position c0: Sat with the cardinality of the expression, Once without,
\* Times for a number of repetitions between lo and hi
RECURSIVE Sat(_, _, _), Once(_, _, _), OnceEach(_, _, _, _), OnceOne(_, _, _, _),
          Times(_, _, _, _, _)
Sat(te, c0, cnt) ==
    /\ Within(cnt, c0, c0 + Len(TCsOf(te)) - 1)
    /\ IF te.type = "TripleConstraint"
       THEN cnt[c0] >= MinOf(te) /\ (MaxOf(te) = -1 \/ cnt[c0] <= MaxOf(te))
       ELSE Times(te, c0, cnt, MinOf(te), MaxOf(te))
Once(te, c0, cnt) ==
    IF te.type = "EachOf" THEN OnceEach(te.expressions, 1, c0, cnt)
    ELSE OnceOne(te.expressions, 1, c0, cnt)
OnceEach(es, i, c0, cnt) ==
    \/ i > Len(es)
    \/ /\ i <= Len(es)
       /\ Sat(es[i], c0, Only(cnt, c0, c0 + Len(TCsOf(es[i])) - 1))
       /\ OnceEach(es, i + 1, c0 + Len(TCsOf(es[i])), cnt)
OnceOne(es, i, c0, cnt) ==
    /\ i <= Len(es)
    /\ \/ Sat(es[i], c0, cnt)
       \/ OnceOne(es, i + 1, c0 + Len(TCsOf(es[i])), cnt)
Times(te, c0, cnt, lo, hi) ==
    \/ /\ \A c \in DOMAIN cnt : cnt[c] = 0
       /\ lo = 0 \/ Once(te, c0, cnt)
    \/ /\ hi # 0
       /\ \E part \in NonEmptyParts(cnt) :
             /\ Once(te, c0, part)
             /\ Times(te, c0, [c \in DOMAIN cnt |-> cnt[c] - part[c]],
                      IF lo > 0 THEN lo - 1 ELSE 0, IF hi = -1 THEN -1 ELSE hi - 1)

\* some assignment of the items to triple constraints of their predicate
\* satisfies the triple expression: every value is accepted by the value
\* expression of its triple constraint and every cardinality is met
Satisfiable(te, items) ==
    LET tcs == TCsOf(te) IN
    \E a \in [DOMAIN items -> 0..(Len(tcs) - 1)] :
        /\ \A i \in DOMAIN items :
              /\ tcs[a[i] + 1].predicate = items[i][1]
              /\ VEAccepts(tcs[a[i] + 1].value_expr, items[i][2])
        /\ Sat(te, 0, [c \in 0..(Len(tcs) - 1) |->
                          Cardinality({i \in DOMAIN items : a[i] = c})])

\* C16: when some assignment of the items of the bag to the triple
\* constraints of the shape satisfies every cardinality and every value
\* expression, the match of the compiled pattern succeeds, whichever
\* allocation it tried first: it does not fail on a bag that has a
\* satisfying allocation.
C16_MatchComplete ==
    run.at = "matched" =>
        (Satisfiable(run.se.expression[1], run.items) => run.result.tag = "Ok")

\* two items of one predicate, two components of that predicate: the match
\* succeeded after it had abandoned an allocation
C16_Witness ==
    /\ run.at = "matched"
    /\ run.result.tag = "Ok"
    /\ run.tried > 0
    /\ Len(run.items) = 2
    /\ run.se.expression[1].type = "EachOf"
    /\ Len(run.shape.rbe_table.components) = 2
    /\ run.shape.rbe_table.components[1][1] = run.shape.rbe_table.components[2][1]

\* C17: a match ends, with success or with failure, for every bag and every
\* compiled pattern: what it can still consume is a natural number that
\* every step taken while the match goes on makes smaller, and a match that
\* has started reaches its end.
C17_MatchTerminates ==
    /\ [](run.at = "matching" => Budget(run) >= 0)
    /\ [][(run.at = "matching" /\ run'.at = "matching") =>
             Budget(run') < Budget(run)]_vars
    /\ (run.at = "matching" ~> run.at = "matched")

\* a match has ended in failure after it had tried four allocations of
\* three items
C17_Witness ==
    /\ run.at = "matched"
    /\ run.result = Err(RbeFailed)
    /\ run.tried >= 3
    /\ Len(run.items) = 3

\* C18: for a shape of one triple constraint on predicate p that puts no
\* condition on values, the match accepts every number of items of p, none
\* included, when the cardinality is (0, unbounded), and rejects a bag
\* without item of p whenever the minimum is above 0.
C18_StarAndMin ==
    (/\ run.at = "matched"
     /\ run.se.expression[1].type = "TripleConstraint"
     /\ run.se.expression[1].value_expr = None) =>
        LET te == run.se.expression[1]
            n == Cardinality({i \in DOMAIN run.bag : run.bag[i][1] = te.predicate})
        IN  /\ (te.min = Some(0) /\ te.max = Some(-1)) => run.result.tag = "Ok"
            /\ (MinOf(te) > 0 /\ n = 0) => run.result = Err(RbeFailed)

\* MaxBag items of p were accepted under (0, unbounded)
C18_Witness ==
    /\ run.at = "matched"
    /\ run.se.expression[1] = TcP(Some(0), Some(-1))
    /\ Len(run.items) = MaxBag
    /\ run.result.tag = "Ok"

\* C19: when the pattern of a closed shape has matched, the shape accepts
\* the node exactly when every predicate of the node that no triple
\* constraint of the shape takes is one of the extra predicates; otherwise
\* it fails with the closed-shape error that carries those remaining
\* predicates and the predicates the shape declares. For {closed, extra q,
\* p (1,1)}: {p} and {p, q} are accepted, {p, r} fails with remainder {r}.
C19_ClosedShape ==
    (/\ run.at = "matched"
     /\ run.se.closed = Some(TRUE)
     /\ run.result.tag = "Ok") =>
        LET tcs == TCsOf(run.se.expression[1])
            declared == {tcs[c].predicate : c \in DOMAIN tcs}
            extra == IF run.se.extra = None THEN {}
                     ELSE {run.se.extra[1][i] : i \in DOMAIN run.se.extra[1]}
            remainder == ({run.bag[i][1] : i \in DOMAIN run.bag} \ declared) \ extra
        IN  IF remainder = {}
            THEN run.outcome = run.result
            ELSE run.outcome = Err(ClosedShapeWithRemainderPreds(remainder, declared))

\* {closed, extra q, p (1,1)} has rejected a node with one item of p and
\* one of r
C19_Witness ==
    /\ run.at = "matched"
    /\ run.se = SShape(Some(TRUE), Some(<<"x:q">>), Some(TcP(None, None)))
    /\ {run.bag[i][1] : i \in DOMAIN run.bag} = {"x:p", "x:r"}
    /\ run.result.tag = "Ok"
    /\ run.outcome = Err(ClosedShapeWithRemainderPreds({"x:r"}, {"x:p"}))

\* the node satisfies a compiled node constraint on the datatype or a
\* conjunction of such
RECURSIVE Holds(_, _)
Holds(se, node) ==
    IF se.type = "ShapeAnd"
    THEN \A k \in DOMAIN se.exprs : Holds(se.exprs[k], node)
    ELSE DatatypeAccepts(node, se.datatype[1])

\* C20: a node satisfies ShapeAnd{[S1, S2]} exactly when it satisfies S1
\* and satisfies S2, each checked on its own: every branch is checked
\* whatever its siblings gave, and when the conjunction fails its
\* ShapeAndError carries the error of every branch that failed, in the
\* order of the branches: both errors when both fail.
C20_ShapeAnd ==
    run.at = "checked" =>
        LET es == run.se.exprs
            failing == {k \in DOMAIN es : ~Holds(es[k], run.node)}
        IN  /\ Len(run.seen) = Len(es)
            /\ run.result.tag = "Ok" <=> failing = {}
            /\ failing # {} =>
                  /\ run.result.err.err = "ShapeAndError"
                  /\ run.result.err.shape_expr = run.se
                  /\ run.result.err.node = run.node
                  /\ LET errs == run.result.err.errors.errs IN
                     /\ Len(errs) = Cardinality(failing)
                     /\ \A k \in failing :
                           errs[Cardinality({j \in failing : j <= k})] =
                               check_node_shape_expr(es[k], run.node).err

\* both branches of a conjunction have failed and both errors are kept
C20_Witness ==
    /\ run.at = "checked"
    /\ run.node = ObjIri("x:n")
    /\ Len(run.se.exprs) = 2
    /\ run.result.tag = "Err"
    /\ Len(run.result.err.errors.errs) = 2
    /\ run.result.err.errors.errs[1] # run.result.err.errors.errs[2]

\* the shape expression, the triple expression holds a TripleExprRef
RECURSIVE HasTeRef(_), TeHasTeRef(_)
HasTeRef(se) ==
    CASE se.type \in {"ShapeOr", "ShapeAnd"} ->
            \E i \in DOMAIN se.shape_exprs : HasTeRef(se.shape_exprs[i])
      [] se.type = "ShapeNot" -> HasTeRef(se.shape_expr)
      [] se.type = "Shape" -> se.expression # None /\ TeHasTeRef(se.expression[1])
      [] OTHER -> FALSE
TeHasTeRef(te) ==
    CASE te.type \in {"EachOf", "OneOf"} ->
            \E i \in DOMAIN te.expressions : TeHasTeRef(te.expressions[i])
      [] te.type = "TripleExprRef" -> TRUE
      [] OTHER -> FALSE

C22_NeverCrashes ==
    /\ pc # "panicked"
    /\ Returned =>
          /\ result.tag \in {"Ok", "Err"}
          /\ (Len(Decls) = 1 /\ Decls[1].shape_expr \in UnsupportedExprs) =>
                 (result.tag = "Err" /\ result.err.err = "Todo")

\* the cardinalities a compiled pattern carries: those of its symbols and of
\* its Repeat groups
RECURSIVE CardsOf(_)
CardsOf(rbe) ==
    CASE rbe.type = "Symbol" -> {Cardinality_from(rbe.card.min, rbe.card.max)}
      [] rbe.type \in {"And", "Or"} -> UNION {CardsOf(rbe.values[i]) : i \in DOMAIN rbe.values}
      [] rbe.type \in {"Star", "Plus"} -> CardsOf(rbe.value)
      [] rbe.type = "Repeat" -> {rbe.card} \cup CardsOf(rbe.value)

\* C23: after compile returns Ok, every cardinality of a symbol or of a
\* group of a compiled shape has min >= 0 and, when max is bounded,
\* min <= max, whatever min and max the schema declares or leaves out.
C23_CardinalityBounds ==
    CompiledOk =>
        \A i \in DOMAIN shapes :
            (shapes[i][2].type = "Shape" /\ shapes[i][2].rbe_table.rbe # None) =>
                \A card \in CardsOf(shapes[i][2].rbe_table.rbe[1]) :
                    /\ card.min >= 0
                    /\ card.max # Unbounded => card.min <= card.max[2]

\* C24: an EachOf group is lowered to And and a OneOf group to Or over
\* the lowered children in their declared order, and the cardinality of the
\* group wraps the result: (1,1) leaves it as it is, (0, unbounded) wraps it
\* in Star, (1, unbounded) in Plus and every other cardinality in Repeat
\* with exactly that cardinality.
C24_GroupWrapping ==
    (CompiledOk /\ Decls[Len(Decls)].shape_expr \in CardExprs
                /\ Decls[Len(Decls)].shape_expr.expression[1].type \in {"EachOf", "OneOf"}) =>
        LET te == Decls[Len(Decls)].shape_expr.expression[1]
            table == shapes[IdxOfDecl(Len(Decls))][2].rbe_table
            rbe == table.rbe[1]
            mn == MinOf(te)
            mx == MaxOf(te)
            inner == IF mn = 1 /\ mx = 1 THEN rbe ELSE rbe.value
        IN  /\ (mn = 1 /\ mx = 1) => rbe.type \in {"And", "Or"}
            /\ (mn = 0 /\ mx = -1) => rbe.type = "Star"
            /\ (mn = 1 /\ mx = -1) => rbe.type = "Plus"
            /\ ~(mn = 1 /\ mx = 1) /\ ~(mn \in {0, 1} /\ mx = -1) =>
                  /\ rbe.type = "Repeat"
                  /\ rbe.card.min = mn
                  /\ rbe.card.max = IF mx = -1 THEN Unbounded ELSE IntMax(mx)
            /\ inner.type = IF te.type = "EachOf" THEN "And" ELSE "Or"
            /\ Len(inner.values) = Len(te.expressions)
            /\ \A j \in DOMAIN te.expressions :
                  /\ inner.values[j].type = "Symbol"
                  /\ table.components[inner.values[j].value + 1][1] =
                         te.expressions[j].predicate
                  /\ inner.values[j].card.min = MinOf(te.expressions[j])

\* a OneOf group of x:q and x:p with min 2 and max 3 has been lowered to
\* Repeat over Or
C24_Witness ==
    /\ CompiledOk
    /\ Len(Decls) = 1
    /\ Decls[1].shape_expr \in CardExprs
    /\ Decls[1].shape_expr.expression[1].type = "OneOf"
    /\ Decls[1].shape_expr.expression[1].min = Some(2)
    /\ Decls[1].shape_expr.expression[1].max = Some(3)
    /\ shapes[0][2].rbe_table.rbe[1].type = "Repeat"
    /\ shapes[0][2].rbe_table.rbe[1].value.type = "Or"

\* the conjuncts of a condition, the number of parts of the node constraint
\* of call c that are present
Conjuncts(cond) ==
    CASE cond.type = "Empty" -> <<>>
      [] cond.type = "Single" -> <<cond>>
      [] cond.type = "And" -> cond.conds
Present(part) == IF part = None THEN 0 ELSE 1
\* r is Ok of the conjunction of the conditions of the parts of call c that
\* are present, in the order node kind, datatype, facets, value set
Composed(c, r) ==
    /\ r.tag = "Ok"
    /\ LET cs == Conjuncts(r.val)
           n == Present(c.nk) + Present(c.dt) + Present(c.xs_facet) + Present(c.values)
       IN  /\ Len(cs) = n
           /\ n = 0 => r.val = MatchCond_empty
           /\ n = 1 => r.val = cs[1]
           /\ n >= 2 => r.val = MatchCond_And(cs)
           /\ c.nk # None => cs[1] = mk_cond_nodekind(c.nk[1])
           /\ c.dt # None => cs[Present(c.nk) + 1] = mk_cond_datatype(c.dt[1])
           /\ c.values # None =>
                  cs[n] = mk_cond_value_set(create_value_set(c.values[1]).val)

\* C25: the condition composed for a node constraint is the conjunction of
\* exactly the conditions that are present, in the order node kind,
\* datatype, facets, value set: the empty condition for none, the condition
\* itself for one, And for two or more; a triple constraint without value
\* expression gets a condition that accepts every node.
C25_CondComposition ==
    /\ call.fn = "cnv_node_constraint" => Composed(call, result)
    /\ (call.fn = "value_expr2match_cond" /\ call.ve = None) =>
          /\ result.tag = "Ok"
          /\ \A node \in Nodes : MatchCond_matches(result.val, node) = Ok(Pending_new)

\* the nodes of the required kind
KindAccepts(node, nk) ==
    \/ nk = "iri" /\ node \in {n \in Nodes : n.object = "Iri"}
    \/ nk = "bnode" /\ node \in {n \in Nodes : n.object = "BlankNode"}
    \/ nk = "literal" /\ node \in {n \in Nodes : n.object = "Literal"}
    \/ nk = "nonliteral" /\ node \in {n \in Nodes : n.object \in {"Iri", "BlankNode"}}

\* C26: the node-kind check accepts exactly the IRIs for kind IRI, the
\* blank nodes for kind blank-node, the literals for kind literal and the
\* IRIs and blank nodes for kind non-literal; a mismatch fails with the
\* error of the required kind, which carries the node; the condition of a
\* node kind gives an empty Pending set on success and fails otherwise.
C26_NodeKindCheck ==
    /\ call.fn = "check_node_node_kind" =>
          IF KindAccepts(call.node, call.nk)
          THEN result = OkUnit
          ELSE /\ result.tag = "Err"
               /\ result.err.node = call.node
               /\ result.err.err =
                     CASE call.nk = "iri" -> "NodeKindIri"
                       [] call.nk = "bnode" -> "NodeKindBNode"
                       [] call.nk = "literal" -> "NodeKindLiteral"
                       [] call.nk = "nonliteral" -> "NodeKindNonLiteral"
    /\ (call.fn = "matches" /\ \E nk \in NodeKinds : call.cond = mk_cond_nodekind(nk)) =>
          IF KindAccepts(call.value, call.cond.check.nodekind)
          THEN result = Ok({})
          ELSE /\ result.tag = "Err"
               /\ result.err.err = "MsgError"

\* a literal has failed the check for kind non-literal with the error of
\* that kind
C26_Witness ==
    /\ call.fn = "check_node_node_kind"
    /\ call.nk = "nonliteral"
    /\ call.node = StringLiteral("s", Some("en"))
    /\ result = Err(NodeKindError("nonliteral", call.node))

\* the positions of the ends of line of a string
Eols(i) == {k \in DOMAIN i : i[k] \in {"LF", "CR"}}

\* C27: on an input that starts with '#', comment returns as text the
\* characters after the '#' up to the first \n or \r or the end of the
\* input, and as remaining input what follows that one end-of-line
\* character: a second \n or \r stays in the remaining input.
C27_Comment ==
    (call.fn = "comment" /\ call.i # <<>> /\ call.i[1] = "#") =>
        LET i == call.i
            eol == IF Eols(i) = {} THEN Len(i) + 1
                   ELSE CHOOSE k \in Eols(i) : \A j \in Eols(i) : k <= j
        IN  result = Parsed(SubSeq(i, eol + 1, Len(i)), SubSeq(i, 2, eol - 1))

\* the comment of "#\r\na" is empty and leaves "\na"
C27_Witness ==
    /\ call = [fn |-> "comment", i |-> <<"#", "CR", "LF", "a">>]
    /\ result = Parsed(<<"LF", "a">>, <<>>)

\* the strings of PN_PREFIX ::= PN_CHARS_BASE ((PN_CHARS | ".")* PN_CHARS)?
InPnPrefix(p) ==
    /\ p # <<>>
    /\ is_pn_chars_base(p[1])
    /\ \A k \in 2..Len(p) : is_pn_chars(p[k]) \/ p[k] = "."
    /\ Len(p) > 1 => is_pn_chars(p[Len(p)])

\* C28: pname_ns accepts an input exactly when what stands before its first
\* ':' is empty or a string of the production PN_PREFIX (a base character,
\* then characters and dots, consecutive dots among them, not ending with
\* a dot), and returns it without the ':'; prefix_decl, with the keyword
\* in any letter case, returns such an alias and the IRI without its angle
\* brackets.
C28_PrefixName ==
    /\ call.fn = "pname_ns" =>
          LET i == call.i
              colons == {k \in DOMAIN i : i[k] = ":"}
              colon == IF colons = {} THEN 0
                       ELSE CHOOSE k \in colons : \A j \in colons : k <= j
              alias == SubSeq(i, 1, colon - 1)
          IN  IF colon > 0 /\ (alias = <<>> \/ InPnPrefix(alias))
              THEN result = Parsed(SubSeq(i, colon + 1, Len(i)), alias)
              ELSE result.tag = "Err"
    /\ call.fn = "prefix_decl" =>
          /\ result.tag \in {"Ok", "Err"}
          /\ result.tag = "Ok" =>
                /\ result.val.out.alias = <<>> \/ InPnPrefix(result.val.out.alias)
                /\ \A k \in DOMAIN result.val.out.iri :
                      result.val.out.iri[k] \notin {"<", ">"}
          /\ (\E kw \in {<<"p", "r", "e", "f", "i", "x">>, <<"P", "R", "E", "F", "I", "X">>,
                          <<"P", "r", "E", "f", "I", "x">>} :
                 call.i = kw \o <<"SP", "a", ".", ".", "b", ":", "SP", "<", "u", "r", "n", ">">>) =>
                result = Parsed(<<>>, [stmt |-> "PrefixDecl",
                                       alias |-> <<"a", ".", ".", "b">>,
                                       iri |-> <<"u", "r", "n">>])

\* the step is a call of add_shape: a caller's, or the one of a turn of
\* collect_shape_labels
AddShapeStep ==
    \/ call'.fn = "add_shape"
    \/ pc = "collect_shape_labels" /\ pos <= Len(Decls)

\* C29: in every state reached from new() by add_shape, replace_shape and
\* from_schema_json, the table of shapes has as many entries as add_shape
\* has been called (none at first, one more with every call, as many after
\* any other step), every key of the table is below the counter, every
\* index the label map gives is a key of the table, and the entry at the
\* index of a label holds that label.
C29_Structure ==
    /\ Cardinality(DOMAIN shapes) = 0
    /\ [][Cardinality(DOMAIN shapes') =
             Cardinality(DOMAIN shapes) + (IF AddShapeStep THEN 1 ELSE 0)]_vars
    /\ [](/\ \A i \in DOMAIN shapes : i < shape_label_counter
          /\ \A l \in DOMAIN shape_labels_map :
                /\ shape_labels_map[l] \in DOMAIN shapes
                /\ shapes[shape_labels_map[l]][1] = l)

\* a label has been registered twice: the table has two entries with it and
\* the label map gives the second
C29_Witness ==
    /\ call.fn = "add_shape"
    /\ Cardinality(DOMAIN shapes) = 2
    /\ shapes[0][1] = call.shape_label
    /\ shapes[1] = <<call.shape_label, call.se>>
    /\ shape_labels_map[call.shape_label] = 1

\* C30: serialising a ValueSetValue and deserialising what was written gives
\* the value back, for every object value (IRI reference, boolean literal,
\* integer literal, object literal with language and datatype present or
\* absent in any combination) and for every Language value; the language of
\* a literal with both a datatype and a language survives
C30_RoundTrip ==
    (call.fn = "round_trip" /\ call.v \in RoundTripValues) => result = Ok(call.v)

====
